---- MODULE Spec2Model ----
(***************************************************************************)
(* Verification model of the rust_kern kernel core.                        *)
(*                                                                         *)
(*  - Region manager (src/paging/heap_region.rs): the region map that      *)
(*    carves the kernel heap VA range into typed regions.      [Spec]      *)
(*  - Free list (src/allocator/free_list.rs).                  [FreeListSpec]*)
(*  - Heap allocator (src/allocator/simple_allocator.rs).      [HeapSpec]  *)
(*  - Scheduler (src/scheduler/*.rs).                          [SchedSpec] *)
(*                                                                         *)
(* Every specification constrains all variables; the variables of the      *)
(* components a specification does not exercise stay at their initial      *)
(* value.                                                                  *)
(***************************************************************************)
EXTENDS Integers, Sequences, FiniteSets, TLC

VARIABLES
    regionPages,    \* RegionManager.head_page and the chain of next_entry pages
    liveRegions,    \* RegionInfo of every Region handle not yet dropped
    regionHist,     \* outcome of the last region-manager call (observation)
    regionPanic     \* TRUE once a region-manager call has panicked or hung

regionVars == <<regionPages, liveRegions, regionHist, regionPanic>>

VARIABLES
    flist,          \* FreeList: the holes in list order and the two counters
    flLive,         \* allocations handed out by FreeList::allocate and not yet freed
    flHist,         \* outcome of the last FreeList call (observation)
    flPanic         \* TRUE once a FreeList call has panicked

flVars == <<flist, flLive, flHist, flPanic>>

VARIABLES
    heapRegions,    \* HeapRegionList: the regions behind the head, in list order
    heapVa,         \* region map of the kernel heap range the heap grows into
    heapLive,       \* allocations handed out by GlobalAlloc::alloc and not yet freed
    heapHist,       \* outcome of the last heap call (observation)
    heapPanic,      \* TRUE once a heap call has panicked or hung
    heapGrew        \* TRUE once expand_and_allocate has added a region

heapVars == <<heapRegions, heapVa, heapLive, heapHist, heapPanic, heapGrew>>

VARIABLES
    schedTasks,     \* the tasks of TASK_DIRECTORY.process_map, in creation order
    ready_lists,    \* TaskDirectoryData.ready_lists, one FIFO per priority
    schedCpus,      \* per CPU: CURRENT_TASK, the next_task in hand, the position
    schedPanic      \* TRUE once a scheduler call has panicked

schedVars == <<schedTasks, ready_lists, schedCpus, schedPanic>>

VARIABLES
    process_map,    \* TaskDirectoryData.process_map: the pids in use
    next_pid,       \* TaskDirectoryData.next_pid
    next_system_pid, \* TaskDirectoryData.next_system_pid
    pidHist         \* outcome of the last create_task call (observation)

pidVars == <<process_map, next_pid, next_system_pid, pidHist>>

VARIABLES
    imValue,        \* InitMutex.lock: the Option<T> behind the spin mutex
    imHolder,       \* the CPU that holds an InitMutexGuard, or NoCpu
    imInits,        \* number of init calls made
    imHist,         \* outcome of the last InitMutex call (observation)
    imPanic         \* TRUE once an InitMutex call has panicked

imVars == <<imValue, imHolder, imInits, imHist, imPanic>>

VARIABLES
    frMemoryMap,    \* the boot memory map handed to early_init, init_post_paging, init_reclaim
    frPhase,        \* how far the boot sequence of the frame allocator has come
    frZones,        \* LOW_REGION, NORMAL_REGION, HIGH_REGION: the PageFrameRegion of each zone
    frAllocated,    \* the frames handed out by allocate_frame and not yet given back
    frHeld,         \* frames a caller holds unmapped (page tables, region map pages)
    frPte,          \* the leaf page-table entry of every page of the region range
    frRegions,      \* the live regions of the range
    frHist,         \* outcome of the last frame-allocator or mapping call (observation)
    frPanic         \* TRUE once a call has panicked or hung

frVars == <<frMemoryMap, frPhase, frZones, frAllocated, frHeld, frPte, frRegions, frHist, frPanic>>

VARIABLES
    pteRaw,         \* the RawPte read from a page table entry
    ptePresent,     \* the result of RawPte::present() on it, <<>> before the call
    pteNotPresent,  \* the result of RawPte::not_present() on it, <<>> before the call
    pteBack         \* the RawPte converted back from the decoded entry, <<>> before the conversion

pteVars == <<pteRaw, ptePresent, pteNotPresent, pteBack>>

VARIABLES
    hdrSize,        \* the region size in chunks passed to the header entry constructors
    hdrPresent,     \* the present header entry (result of its construction), <<>> if none
    hdrNotPresent   \* the not-present header entry (result of its construction), <<>> if none

hdrVars == <<hdrSize, hdrPresent, hdrNotPresent>>

VARIABLES
    bootAps,        \* acpi_context.application_processors: the state of each AP
    bspPc,          \* where the BSP is in init_post_paging and start_aps
    bspAp,          \* the AP the loop of start_aps is at
    AP_READY,       \* init::AP_READY
    BSP_READY,      \* init::BSP_READY
    trampoline,     \* the words ready, stack, startup_data, code of the trampoline page
    apPc,           \* where each AP is, from its halt to its idle loop
    apRegs,         \* the stack and startup data each AP took from the trampoline page
    bootCurrent,    \* CURRENT_TASK.current of each AP: its idle task or NoTask
    bootPanic       \* a panic halted the CPUs

bootVars == <<bootAps, bspPc, bspAp, AP_READY, BSP_READY, trampoline, apPc, apRegs, bootCurrent, bootPanic>>

VARIABLES
    swTasks,        \* every task: its scheduler state and its ArchContext (saved context)
    swReady,        \* TASK_DIRECTORY ready lists, one per priority
    swCpus,         \* per CPU: CURRENT_TASK slots, register file, position in do_switch
    swPanic         \* TRUE once a CPU has panicked

swVars == <<swTasks, swReady, swCpus, swPanic>>

VARIABLES
    mfTokens,       \* the MapperFlush tokens made so far: address and what became of each
    mfAll,          \* the MapperFlushAll in scope (<<>> if none): its flag and the tokens it took
    mfHist,         \* the last call on a token or on the MapperFlushAll (observation)
    mfPanic         \* TRUE once a drop has panicked

mfVars == <<mfTokens, mfAll, mfHist, mfPanic>>

VARIABLES
    lkCall,         \* per CPU: the operation it runs ("none" between operations)
    lkProg,         \* per CPU: the lock calls still ahead in the operation it runs
    lkHeld,         \* per CPU: the locks it holds, in the order it took them
    lkSpin          \* per CPU: TRUE once it spins on a lock it holds itself

lkVars == <<lkCall, lkProg, lkHeld, lkSpin>>

VARIABLES
    ntCounter,      \* the counter passed to from_type_and_counter
    ntRaw,          \* the not-present entry built and the type it was built from, <<>> if none
    ntDecoded,      \* the result of page_type() on it, <<>> before the call
    ntGuard         \* the result of KernelStackGuardPagePte::try_from on it, <<>> before the call

ntVars == <<ntCounter, ntRaw, ntDecoded, ntGuard>>

vars == <<regionVars, flVars, heapVars, schedVars, pidVars, imVars, frVars, pteVars, hdrVars, bootVars, swVars, mfVars, lkVars, ntVars>>
notRegionVars ==
    <<flVars, heapVars, schedVars, pidVars, imVars, frVars, pteVars, hdrVars, bootVars, swVars, mfVars, lkVars, ntVars>>
notFlVars ==
    <<regionVars, heapVars, schedVars, pidVars, imVars, frVars, pteVars, hdrVars, bootVars, swVars, mfVars, lkVars, ntVars>>
notHeapVars ==
    <<regionVars, flVars, schedVars, pidVars, imVars, frVars, pteVars, hdrVars, bootVars, swVars, mfVars, lkVars, ntVars>>
notSchedVars ==
    <<regionVars, flVars, heapVars, pidVars, imVars, frVars, pteVars, hdrVars, bootVars, swVars, mfVars, lkVars, ntVars>>
notPidVars ==
    <<regionVars, flVars, heapVars, schedVars, imVars, frVars, pteVars, hdrVars, bootVars, swVars, mfVars, lkVars, ntVars>>
notImVars ==
    <<regionVars, flVars, heapVars, schedVars, pidVars, frVars, pteVars, hdrVars, bootVars, swVars, mfVars, lkVars, ntVars>>
notFrVars ==
    <<regionVars, flVars, heapVars, schedVars, pidVars, imVars, pteVars, hdrVars, bootVars, swVars, mfVars, lkVars, ntVars>>
notPteVars ==
    <<regionVars, flVars, heapVars, schedVars, pidVars, imVars, frVars, hdrVars, bootVars, swVars, mfVars, lkVars, ntVars>>
notHdrVars ==
    <<regionVars, flVars, heapVars, schedVars, pidVars, imVars, frVars, pteVars, bootVars, swVars, mfVars, lkVars, ntVars>>
notBootVars ==
    <<regionVars, flVars, heapVars, schedVars, pidVars, imVars, frVars, pteVars, hdrVars, swVars, mfVars, lkVars, ntVars>>
notSwVars ==
    <<regionVars, flVars, heapVars, schedVars, pidVars, imVars, frVars, pteVars, hdrVars, bootVars, mfVars, lkVars, ntVars>>
notMfVars ==
    <<regionVars, flVars, heapVars, schedVars, pidVars, imVars, frVars, pteVars, hdrVars, bootVars, swVars, lkVars, ntVars>>
notLkVars ==
    <<regionVars, flVars, heapVars, schedVars, pidVars, imVars, frVars, pteVars, hdrVars, bootVars, swVars, mfVars, ntVars>>
notNtVars ==
    <<regionVars, flVars, heapVars, schedVars, pidVars, imVars, frVars, pteVars, hdrVars, bootVars, swVars, mfVars, lkVars>>

(***************************************************************************)
(* Common helpers                                                          *)
(***************************************************************************)
\* The element of a one-element set.  { e(x) : x \in {v} } computes v once
\* and then e(x), as a `let x = v;` of the source does.
Only(S) == CHOOSE x \in S : TRUE

Min(a, b) == IF a <= b THEN a ELSE b
Max(a, b) == IF a >= b THEN a ELSE b

\* align_down / align_up for a power-of-two alignment
align_down(addr, align) == addr - (addr % align)
align_up(addr, align) == align_down(addr + align - 1, align)

PAGE_SIZE == 4096

(***************************************************************************)
(* Region manager                                                          *)
(***************************************************************************)
\* Number of RegionMapEntry slots in one region-map page (101 in the
\* kernel; scaled down so that the map spills into further pages).
REGION_MAP_ENTRIES_IN_PAGE == 3
\* Size in pages of the VA range handed to RegionManager::new.
RangePages == 4
\* Largest page count passed to an allocation request.
MaxRequestPages == RangePages + 1

RangeBase == 16 * PAGE_SIZE
RangeLimit == RangeBase + RangePages * PAGE_SIZE

RegionTypes == {"Free", "Heap", "KernelStack", "PhysicalMapping"}

\* RegionMapEntry::empty
EmptyEntry == [base |-> 0, limit |-> 0, rtype |-> "None"]

\* RegionMapEntry::size
EntrySize(e) == e.limit - e.base

\* RegionMapPage::from_frame
NewMapPage == [frame |-> TRUE,
               entries |-> [i \in 1..REGION_MAP_ENTRIES_IN_PAGE |-> EmptyEntry]]

\* RegionManager::new
RegionManagerNew(base, limit) ==
    << [frame |-> FALSE,
        entries |-> [i \in 1..REGION_MAP_ENTRIES_IN_PAGE |->
                        IF i = 1 THEN [base |-> base, limit |-> limit, rtype |-> "Free"]
                                 ELSE EmptyEntry]] >>

SetEntry(pages, p, i, e) == [pages EXCEPT ![p].entries[i] = e]

\* A shuffle that never links a further page: an entry pushed out of the
\* last page is lost.
RECURSIVE shuffle_entries_up_no_link(_, _, _, _)
shuffle_entries_up_no_link(pages, p, pos, fill) ==
    IF fill.rtype = "None" THEN pages
    ELSE IF pos <= REGION_MAP_ENTRIES_IN_PAGE
         THEN shuffle_entries_up_no_link(SetEntry(pages, p, pos, fill), p, pos + 1,
                                         pages[p].entries[pos])
         ELSE IF p = Len(pages)
              THEN pages
              ELSE shuffle_entries_up_no_link(pages, p + 1, 1, fill)

\* RegionManager::shuffle_entries_up: insert fill at (p, pos), moving every
\* later entry up by one; a new page is linked when the last page overflows.
RECURSIVE shuffle_entries_up(_, _, _, _)
shuffle_entries_up(pages, p, pos, fill) ==
    IF fill.rtype = "None" THEN pages
    ELSE IF pos <= REGION_MAP_ENTRIES_IN_PAGE
         THEN shuffle_entries_up(SetEntry(pages, p, pos, fill), p, pos + 1,
                                 pages[p].entries[pos])
         ELSE IF p = Len(pages)
              THEN shuffle_entries_up(Append(pages, NewMapPage), p + 1, 1, fill)
              ELSE shuffle_entries_up(pages, p + 1, 1, fill)

\* A shuffle that stops at the end of its page instead of pulling the first
\* entry of the next page down.
RECURSIVE shuffle_entries_down_no_carry(_, _, _)
shuffle_entries_down_no_carry(pages, p, pos) ==
    IF pos = REGION_MAP_ENTRIES_IN_PAGE
    THEN SetEntry(pages, p, pos, EmptyEntry)
    ELSE LET moved == SetEntry(pages, p, pos, pages[p].entries[pos + 1])
         IN  IF pages[p].entries[pos + 1].rtype = "None"
             THEN moved
             ELSE shuffle_entries_down_no_carry(moved, p, pos + 1)

\* RegionManager::shuffle_entries_down: remove the entry at (p, pos), moving
\* every later entry down by one; a next page found empty is unlinked.
RECURSIVE shuffle_entries_down(_, _, _)
shuffle_entries_down(pages, p, pos) ==
    IF pos = REGION_MAP_ENTRIES_IN_PAGE
    THEN IF p = Len(pages)
         THEN SetEntry(pages, p, pos, EmptyEntry)
         ELSE LET moved == SetEntry(pages, p, pos, pages[p + 1].entries[1])
              IN  IF pages[p + 1].entries[1].rtype = "None"
                  THEN SubSeq(moved, 1, p)
                  ELSE shuffle_entries_down(moved, p + 1, 1)
    ELSE LET moved == SetEntry(pages, p, pos, pages[p].entries[pos + 1])
         IN  IF pages[p].entries[pos + 1].rtype = "None"
             THEN moved
             ELSE shuffle_entries_down(moved, p, pos + 1)

\* Scan order of allocate_first_fit / deallocate_recurse_thing: page by page,
\* slot by slot.
Slots(pages) == (1..Len(pages)) \X (1..REGION_MAP_ENTRIES_IN_PAGE)
SlotBefore(a, b) == a[1] < b[1] \/ (a[1] = b[1] /\ a[2] < b[2])
FirstSlot(S) == CHOOSE a \in S : \A b \in S : a = b \/ SlotBefore(a, b)
EntryAt(pages, s) == pages[s[1]].entries[s[2]]

\* RegionMapEntry::region_info
region_info(e) == [start_va |-> e.base, limit_va |-> e.limit]

NoInfo == [start_va |-> 0, limit_va |-> 0]

\* The scan of RegionManager::allocate_first_fit.  frameOk:
\* allocate_kernel_frame returned a frame; mapRes: what the mapper closure
\* does for the chosen entry (returns "Ok" or "OutOfMemory", or never returns:
\* "panic" for a failed assertion, "hang" for a spin on a lock that is never
\* released); exact: a Free entry of exactly the required size is taken
\* (the second match arm); restore: the Err arm of the mapper puts the limit
\* of the chosen entry back.
FirstFitWith(pages, required_size, region_type, frameOk, mapRes, exact, restore) ==
    LET stops == {s \in Slots(pages) :
                    \/ EntryAt(pages, s).rtype = "None"
                    \/ /\ EntryAt(pages, s).rtype = "Free"
                       /\ \/ EntrySize(EntryAt(pages, s)) > required_size
                          \/ exact /\ EntrySize(EntryAt(pages, s)) = required_size}
    IN  IF stops = {}
        THEN [pages |-> pages, res |-> "NoRegionAddressSpaceAvailable", info |-> NoInfo]
        ELSE
        LET s == FirstSlot(stops)
            p == s[1]
            i == s[2]
            e == EntryAt(pages, s)
        IN  IF e.rtype = "None"
            THEN IF p < Len(pages)
                 THEN [pages |-> pages, res |-> "panic", info |-> NoInfo]
                 ELSE [pages |-> pages, res |-> "NoRegionAddressSpaceAvailable",
                       info |-> NoInfo]
            ELSE IF EntrySize(e) > required_size
            THEN IF ~frameOk
                 THEN [pages |-> pages, res |-> "OutOfMemory", info |-> NoInfo]
                 ELSE
                 LET last_entry == [base |-> e.base + required_size,
                                    limit |-> e.limit, rtype |-> "Free"]
                     \* this_page.entries[i].limit = base + required_size
                     shrunk == [e EXCEPT !.limit = e.base + required_size]
                 IN  IF mapRes \in {"panic", "hang"}
                     THEN [pages |-> pages, res |-> mapRes, info |-> NoInfo]
                     ELSE IF mapRes # "Ok"
                     THEN [pages |-> SetEntry(pages, p, i,
                                        IF restore
                                        THEN [shrunk EXCEPT !.limit = last_entry.limit]
                                        ELSE shrunk),
                           res |-> mapRes, info |-> NoInfo]
                     ELSE LET taken == [shrunk EXCEPT !.rtype = region_type]
                          IN  [pages |-> shuffle_entries_up(SetEntry(pages, p, i, taken),
                                                            p, i + 1, last_entry),
                               res |-> "Ok", info |-> region_info(taken)]
            ELSE IF mapRes # "Ok"
                 THEN [pages |-> pages, res |-> mapRes, info |-> NoInfo]
                 ELSE [pages |-> SetEntry(pages, p, i, [e EXCEPT !.rtype = region_type]),
                       res |-> "Ok", info |-> region_info(e)]

\* The part of deallocate_recurse_thing that runs once the entry to drop
\* sits at slot (p, j): checks, tail merge, rewrite as Free.
DropAt(pages, p, j, region_info_, lead_bytes, mergeTail) ==
    LET e == pages[p].entries[j]
    IN  IF e.rtype \in {"None", "Free"} \/ e.limit # region_info_.limit_va
        THEN [pages |-> pages, res |-> "panic"]
        ELSE
        LET hasTail ==
                IF ~mergeTail THEN FALSE
                ELSE IF j < REGION_MAP_ENTRIES_IN_PAGE
                THEN pages[p].entries[j + 1].rtype = "Free"
                ELSE p < Len(pages) /\ pages[p + 1].entries[1].rtype = "Free"
            tailSlot == IF j < REGION_MAP_ENTRIES_IN_PAGE THEN <<p, j + 1>> ELSE <<p + 1, 1>>
            tail_bytes == IF hasTail THEN EntrySize(EntryAt(pages, tailSlot)) ELSE 0
            shuffled == IF hasTail
                        THEN shuffle_entries_down(pages, tailSlot[1], tailSlot[2])
                        ELSE pages
        IN  [pages |-> SetEntry(shuffled, p, j,
                                [base |-> e.base - lead_bytes,
                                 limit |-> e.limit + tail_bytes,
                                 rtype |-> "Free"]),
             res |-> "Ok"]

\* RegionManager::deallocate_recurse_thing with the merge steps selectable
\* (mergeLead: fold a Free predecessor in; mergeTail: fold a Free successor in).
DeallocateWith(pages, region_info_, mergeLead, mergeTail) ==
    LET start_va == region_info_.start_va
        IsLead(e) == mergeLead /\ e.limit = start_va /\ e.rtype = "Free"
        stops == {s \in Slots(pages) :
                    LET e == EntryAt(pages, s)
                    IN  \/ e.base > start_va
                        \/ e.rtype = "None"
                        \/ IsLead(e)
                        \/ e.base = start_va}
    IN  IF stops = {}
        THEN [pages |-> pages, res |-> "panic"]
        ELSE
        LET s == FirstSlot(stops)
            p == s[1]
            j == s[2]
            e == EntryAt(pages, s)
        IN  IF e.base > start_va \/ e.rtype = "None"
            THEN [pages |-> pages, res |-> "panic"]
            ELSE IF IsLead(e)
            THEN IF j < REGION_MAP_ENTRIES_IN_PAGE
                 THEN DropAt(shuffle_entries_down(
                                SetEntry(pages, p, j, pages[p].entries[j + 1]), p, j + 1),
                             p, j, region_info_, EntrySize(e), mergeTail)
                 ELSE IF p = Len(pages)
                 THEN [pages |-> pages, res |-> "panic"]
                 ELSE DropAt(shuffle_entries_down(
                                SetEntry(pages, p, j, pages[p + 1].entries[1]), p + 1, 1),
                             p, j, region_info_, EntrySize(e), mergeTail)
            ELSE DropAt(pages, p, j, region_info_, 0, mergeTail)

\* A deallocation that never folds a Free successor into the dropped region.
deallocate_no_tail_merge(pages, region_info_) ==
    DeallocateWith(pages, region_info_, TRUE, FALSE)

\* A deallocation that never folds a Free predecessor into the dropped region.
deallocate_no_lead_merge(pages, region_info_) ==
    DeallocateWith(pages, region_info_, FALSE, TRUE)

\* RegionManager::deallocate_recurse_thing
deallocate_recurse_thing(pages, region_info_) ==
    DeallocateWith(pages, region_info_, TRUE, TRUE)

\* A first fit that passes over a Free entry of exactly the required size.
allocate_first_fit_no_exact(pages, required_size, region_type, frameOk, mapRes) ==
    FirstFitWith(pages, required_size, region_type, frameOk, mapRes, FALSE, TRUE)

\* A first fit whose Err arm leaves the chosen entry cut down to the
\* required size.
allocate_first_fit_no_restore(pages, required_size, region_type, frameOk, mapRes) ==
    FirstFitWith(pages, required_size, region_type, frameOk, mapRes, TRUE, FALSE)

\* RegionManager::allocate_first_fit
allocate_first_fit(pages, required_size, region_type, frameOk, mapRes) ==
    FirstFitWith(pages, required_size, region_type, frameOk, mapRes, TRUE, TRUE)

\* The region map as the code reads it (print_entries, the scans of
\* allocate_first_fit and deallocate_recurse_thing): the entries in slot
\* order up to, not including, the first untyped entry.
AllEntries(pages) ==
    [k \in 1..(Len(pages) * REGION_MAP_ENTRIES_IN_PAGE) |->
        pages[((k - 1) \div REGION_MAP_ENTRIES_IN_PAGE) + 1]
            .entries[((k - 1) % REGION_MAP_ENTRIES_IN_PAGE) + 1]]

RegionMap(pages) ==
    LET all == AllEntries(pages)
        untyped == {k \in 1..Len(all) : all[k].rtype = "None"}
        n == IF untyped = {} THEN Len(all)
             ELSE (CHOOSE k \in untyped : \A m \in untyped : k <= m) - 1
    IN  SubSeq(all, 1, n)

\* RegionManager::map_region, as far as the region map can see it: the
\* result of mapping `pages` pages as region_type.  mem: "noMap" if the
\* mapping function's own set_not_present or map_to fails for want of a page
\* table, "noPage" if a page fails inside map_nonpaged_impl; debug: debug
\* assertions are compiled in.  map_nonpaged_impl answers a failure with
\* unmap_nonpaged, which takes the page-table lock its caller holds
\* (lock_page_table at heap_region.rs:368/392, again at 644), so that call
\* never returns.
map_region(region_type, pages, mem, debug) ==
    IF region_type = "KernelStack" /\ pages < 2 /\ debug THEN "panic"
    ELSE IF mem = "noPage" /\ (region_type = "Heap" \/ (region_type = "KernelStack" /\ pages >= 2))
    THEN "hang"
    ELSE IF mem = "noMap" /\ region_type \in {"KernelStack", "PhysicalMapping"}
    THEN "OutOfMemory"
    ELSE "Ok"

\* RegionManager::allocate_region
allocate_region(pagesMap, pages, region_type, frameOk, mem, debug) ==
    allocate_first_fit(pagesMap, pages * PAGE_SIZE, region_type, frameOk,
                       map_region(region_type, pages, mem, debug))

HistInit == [op |-> "init", res |-> "Ok", info |-> NoInfo, pre |-> <<>>,
             kind |-> "None", req |-> 0, mapFailed |-> FALSE,
             undoes |-> FALSE, lead |-> FALSE, tail |-> FALSE, cross |-> FALSE]

\* What the frame allocator does during one request: "ok", "noFrame"
\* (allocate_kernel_frame returns None), "noMap" (no page table for the
\* guard entry or for a physical mapping) or "noPage" (no frame or page
\* table for a page of map_nonpaged_impl).
MemOutcomes == {"ok", "noFrame", "noMap", "noPage"}

\* The outcomes each kind of region can meet.
MemOutcomesOf(kind) ==
    IF kind = "Heap" THEN MemOutcomes \ {"noMap"}
    ELSE IF kind = "PhysicalMapping" THEN MemOutcomes \ {"noPage"}
    ELSE MemOutcomes

\* Common part of the three allocation entry points.
RegionRequest(kind, pages, mem, debug) ==
    LET r == allocate_region(regionPages, pages, kind, mem # "noFrame", mem, debug)
        \* the mapper closure ran and the mapping failed
        mapFailed == \/ mem = "noMap" /\ r.res = "OutOfMemory"
                     \/ mem = "noPage" /\ r.res = "hang"
    IN  /\ ~regionPanic
        /\ UNCHANGED notRegionVars
        /\ regionPages' = r.pages
        /\ regionPanic' = (r.res \in {"panic", "hang"})
        /\ liveRegions' = IF r.res = "Ok" THEN liveRegions \cup {r.info} ELSE liveRegions
        /\ regionHist' = [HistInit EXCEPT
                            !.op = "alloc", !.res = r.res, !.info = r.info,
                            !.kind = IF r.res = "Ok" THEN kind ELSE "None",
                            !.req = IF r.res = "Ok" \/ mapFailed THEN pages ELSE 0,
                            !.mapFailed = mapFailed,
                            !.pre = IF r.res = "Ok" THEN RegionMap(regionPages) ELSE <<>>]

\* heap_region::allocate_region(pages)
AllocateRegion ==
    \E pages \in 1..MaxRequestPages, mem \in MemOutcomesOf("Heap") :
        RegionRequest("Heap", pages, mem, FALSE)

\* heap_region::allocate_kernel_stack(pages)
AllocateKernelStack ==
    \E pages \in 1..MaxRequestPages, mem \in MemOutcomesOf("KernelStack") :
        \E debug \in (IF pages < 2 THEN BOOLEAN ELSE {FALSE}) :
            RegionRequest("KernelStack", pages, mem, debug)

\* Physical addresses and sizes handed to map_physical_memory.
PhysAddrs == {2 * PAGE_SIZE, 3 * PAGE_SIZE - 8}
PhysSizes == {8, 16, 2 * PAGE_SIZE}

\* heap_region::map_physical_memory(physical_address, size, flags)
MapPhysicalMemory ==
    \E physical_address \in PhysAddrs, size \in PhysSizes,
       mem \in MemOutcomesOf("PhysicalMapping") :
        LET aligned_start == align_down(physical_address, PAGE_SIZE)
            aligned_limit == align_up(physical_address + size, PAGE_SIZE)
            pages == (aligned_limit - aligned_start) \div PAGE_SIZE
        IN  RegionRequest("PhysicalMapping", pages, mem, FALSE)

\* Region::drop -> RegionManager::deallocate_region
DropRegion ==
    \E r \in liveRegions :
        LET d == deallocate_recurse_thing(regionPages, r)
            map == RegionMap(regionPages)
            at == {k \in 1..Len(map) : map[k].base = r.start_va}
            lead == {k \in 1..Len(map) : map[k].rtype = "Free" /\ map[k].limit = r.start_va}
            tail == {k \in 1..Len(map) : map[k].rtype = "Free" /\ map[k].base = r.limit_va}
            undoes == regionHist.op = "alloc" /\ regionHist.res = "Ok" /\ regionHist.info = r
        IN  /\ ~regionPanic
            /\ UNCHANGED notRegionVars
            /\ regionPages' = d.pages
            /\ regionPanic' = (d.res = "panic")
            /\ liveRegions' = liveRegions \ {r}
            /\ regionHist' = [HistInit EXCEPT
                    !.op = "drop", !.res = d.res, !.info = r,
                    !.undoes = undoes,
                    !.pre = IF undoes THEN regionHist.pre ELSE <<>>,
                    !.lead = lead # {},
                    !.tail = tail # {},
                    !.cross = \/ \E k \in lead : k % REGION_MAP_ENTRIES_IN_PAGE = 0
                              \/ \E k \in at : tail # {} /\ k % REGION_MAP_ENTRIES_IN_PAGE = 0]

(***************************************************************************)
(* Free list (src/allocator/free_list.rs)                                  *)
(***************************************************************************)
\* size_of::<FreeNode>() and align_of::<FreeNode>() on x86_64
SizeOfFreeNode == 16
AlignOfFreeNode == 8

\* FreeList::align_layout
align_layout(size, align) ==
    [size |-> align_up(Max(size, SizeOfFreeNode), AlignOfFreeNode),
     align |-> Max(align, AlignOfFreeNode)]

\* FreeList::new
FreeListNew(start, limit) ==
    LET aligned_start == align_up(start, AlignOfFreeNode)
        size == IF limit >= aligned_start THEN limit - aligned_start ELSE 0
    IN  [nodes |-> << [addr |-> aligned_start, size |-> size] >>,
         allocated_space |-> 0,
         free_space |-> size]

NoHole == [addr |-> 0, size |-> 0]

\* A start behind the front padding node that is not rounded up to the
\* required alignment.
padded_start_unaligned(node_start, required_alignment) ==
    node_start + SizeOfFreeNode

\* The aligned start allocate_from_hole_info picks when the hole start is
\* not aligned (free_list.rs line 191).
padded_start(node_start, required_alignment) ==
    align_up(node_start + SizeOfFreeNode, required_alignment)

\* FreeList::allocate_from_hole_info
allocate_from_hole_info(hole, layout) ==
    LET required_size == layout.size
        required_alignment == layout.align
        node_start == hole.addr
        node_end == node_start + hole.size
        aligned == align_up(node_start, required_alignment) = node_start
        aligned_hole_start == IF aligned THEN node_start
                              ELSE padded_start(node_start, required_alignment)
        front_padding == IF aligned THEN NoHole
                         ELSE [addr |-> node_start, size |-> aligned_hole_start - node_start]
        aligned_size == node_end - aligned_hole_start
    IN  IF \/ required_size < SizeOfFreeNode
           \/ required_alignment < AlignOfFreeNode
           \/ required_size # align_up(required_size, AlignOfFreeNode)
        THEN [res |-> "panic"]
        ELSE IF aligned_hole_start + required_size > node_end
        THEN [res |-> "None"]
        ELSE IF aligned_size # required_size /\ aligned_size - required_size < SizeOfFreeNode
        THEN [res |-> "None"]
        ELSE [res |-> "Some",
              info |-> [addr |-> aligned_hole_start, size |-> required_size],
              front_padding |-> front_padding,
              back_padding |-> IF aligned_size = required_size THEN NoHole
                               ELSE [addr |-> aligned_hole_start + required_size,
                                     size |-> aligned_size - required_size]]

RemoveAt(seq, k) == SubSeq(seq, 1, k - 1) \o SubSeq(seq, k + 1, Len(seq))
InsertAfter(seq, k, x) == SubSeq(seq, 1, k) \o <<x>> \o SubSeq(seq, k + 1, Len(seq))

\* The loop of FreeList::deallocate_from_hole_info.  idx is the position of
\* `node` in the list, 0 for the zero-sized head inside the FreeList object.
\* mergeNext: the arm that folds the next node into the hole is present;
\* mergePrev: the two arms that add the hole to the node it follows are
\* present.
RECURSIVE DeallocateLoop(_, _, _, _, _)
DeallocateLoop(nodes, idx, hole, mergeNext, mergePrev) ==
    LET node_addr == IF idx = 0 THEN 0 ELSE nodes[idx].addr
        node_size == IF idx = 0 THEN 0 ELSE nodes[idx].size
        hasNext == idx < Len(nodes)
        next == IF hasNext THEN nodes[idx + 1] ELSE NoHole
    IN  IF node_addr + node_size > hole.addr
        THEN [nodes |-> nodes, res |-> "panic"]
        ELSE IF mergePrev /\ hasNext /\ node_addr + node_size = hole.addr
                /\ hole.addr + hole.size = next.addr
        THEN IF idx = 0 THEN [nodes |-> nodes, res |-> "panic"]
             ELSE [nodes |-> RemoveAt([nodes EXCEPT ![idx].size =
                                            node_size + hole.size + next.size], idx + 1),
                   res |-> "Ok"]
        ELSE IF mergePrev /\ node_addr + node_size = hole.addr
        THEN IF idx = 0 THEN [nodes |-> nodes, res |-> "panic"]
             ELSE [nodes |-> [nodes EXCEPT ![idx].size = node_size + hole.size],
                   res |-> "Ok"]
        ELSE IF mergeNext /\ hasNext /\ hole.addr + hole.size = next.addr
        THEN Only({ DeallocateLoop(n, idx, h, mergeNext, mergePrev) :
                        n \in {RemoveAt(nodes, idx + 1)},
                        h \in {[hole EXCEPT !.size = hole.size + next.size]} })
        ELSE IF hasNext /\ next.addr <= hole.addr
        THEN Only({ DeallocateLoop(nodes, i, hole, mergeNext, mergePrev) : i \in {idx + 1} })
        ELSE [nodes |-> InsertAfter(nodes, idx, [addr |-> hole.addr, size |-> hole.size]),
              res |-> "Ok"]

\* The entry assertions of deallocate_from_hole_info, then its loop.
DeallocateFrom(nodes, hole, mergeNext, mergePrev) ==
    IF \/ hole.size < SizeOfFreeNode
       \/ hole.size # align_up(hole.size, AlignOfFreeNode)
       \/ hole.addr # align_up(hole.addr, AlignOfFreeNode)
    THEN [nodes |-> nodes, res |-> "panic"]
    ELSE Only({ DeallocateLoop(n, 0, h, mergeNext, mergePrev) : n \in {nodes}, h \in {hole} })

\* A free path that links the hole in front of an abutting next node
\* without merging the two.
deallocate_from_hole_info_no_next_merge(nodes, hole) ==
    DeallocateFrom(nodes, hole, FALSE, TRUE)

\* A free path that links the hole behind the node it abuts without adding
\* it to that node.
deallocate_from_hole_info_no_prev_merge(nodes, hole) ==
    DeallocateFrom(nodes, hole, TRUE, FALSE)

\* FreeList::deallocate_from_hole_info
deallocate_from_hole_info(nodes, hole) ==
    DeallocateFrom(nodes, hole, TRUE, TRUE)

\* FreeList::tail_allocate: the first hole, in list order, that
\* allocate_from_hole_info accepts is unlinked.
tail_allocate(nodes, layout) ==
    Only({ IF fits = {} THEN [res |-> "None", nodes |-> nodes]
           ELSE Only({ Only({ IF a.res = "panic" THEN [res |-> "panic", nodes |-> nodes]
                              ELSE [res |-> "Some", nodes |-> RemoveAt(nodes, k),
                                    allocation |-> a, hole |-> nodes[k]] :
                              a \in {allocate_from_hole_info(nodes[k], layout)} }) :
                       k \in {CHOOSE k \in fits : \A m \in fits : k <= m} }) :
           fits \in {{k \in 1..Len(nodes) :
                        allocate_from_hole_info(nodes[k], layout).res # "None"}} })

\* An allocate that puts the front padding back and forgets the back padding.
ReturnPadding_front_only(nodes, allocation) ==
    IF allocation.front_padding # NoHole
    THEN deallocate_from_hole_info(nodes, allocation.front_padding)
    ELSE [nodes |-> nodes, res |-> "Ok"]

\* The two deallocate_from_hole_info calls of FreeList::allocate: the front
\* padding, then the back padding.
ReturnPadding(nodes, allocation) ==
    Only({ IF f.res = "Ok" /\ allocation.back_padding # NoHole
           THEN deallocate_from_hole_info(f.nodes, allocation.back_padding)
           ELSE f :
           f \in {IF allocation.front_padding # NoHole
                  THEN deallocate_from_hole_info(nodes, allocation.front_padding)
                  ELSE [nodes |-> nodes, res |-> "Ok"]} })

\* An allocate that counts the requested bytes before it knows that a hole
\* was found.
FreeListAllocate_counts_first(fl, layout) ==
    Only({ IF t.res = "None"
           THEN [fl |-> [fl EXCEPT !.allocated_space = @ + layout.size,
                                   !.free_space = @ - layout.size],
                 res |-> t.res, ptr |-> 0, hole |-> NoHole]
           ELSE IF t.res # "Some"
           THEN [fl |-> fl, res |-> t.res, ptr |-> 0, hole |-> NoHole]
           ELSE Only({ IF b.res # "Ok"
                       THEN [fl |-> fl, res |-> "panic", ptr |-> 0, hole |-> NoHole]
                       ELSE [fl |-> [nodes |-> b.nodes,
                                     allocated_space |->
                                        fl.allocated_space + t.allocation.info.size,
                                     free_space |-> fl.free_space - t.allocation.info.size],
                             res |-> "Some", ptr |-> t.allocation.info.addr,
                             hole |-> t.hole] :
                       b \in {ReturnPadding(t.nodes, t.allocation)} }) :
           t \in {tail_allocate(fl.nodes, layout)} })

\* FreeList::allocate
FreeListAllocate(fl, layout) ==
    Only({ IF t.res # "Some"
           THEN [fl |-> fl, res |-> t.res, ptr |-> 0, hole |-> NoHole]
           ELSE Only({ IF b.res # "Ok"
                       THEN [fl |-> fl, res |-> "panic", ptr |-> 0, hole |-> NoHole]
                       ELSE [fl |-> [nodes |-> b.nodes,
                                     allocated_space |->
                                        fl.allocated_space + t.allocation.info.size,
                                     free_space |-> fl.free_space - t.allocation.info.size],
                             res |-> "Some", ptr |-> t.allocation.info.addr,
                             hole |-> t.hole] :
                       b \in {ReturnPadding(t.nodes, t.allocation)} }) :
           t \in {tail_allocate(fl.nodes, layout)} })

\* A deallocate that forgets to give the bytes back to free_space.
FreeListDeallocate_no_free_count(fl, ptr, layout) ==
    Only({ IF d.res # "Ok" THEN [fl |-> fl, res |-> "panic"]
           ELSE [fl |-> [nodes |-> d.nodes,
                         allocated_space |-> fl.allocated_space - layout.size,
                         free_space |-> fl.free_space],
                 res |-> "Ok"] :
           d \in {deallocate_from_hole_info(fl.nodes, [addr |-> ptr, size |-> layout.size])} })

\* FreeList::deallocate
FreeListDeallocate(fl, ptr, layout) ==
    Only({ IF d.res # "Ok" THEN [fl |-> fl, res |-> "panic"]
           ELSE [fl |-> [nodes |-> d.nodes,
                         allocated_space |-> fl.allocated_space - layout.size,
                         free_space |-> fl.free_space + layout.size],
                 res |-> "Ok"] :
           d \in {deallocate_from_hole_info(fl.nodes, [addr |-> ptr, size |-> layout.size])} })

\* FreeList::node_count
node_count(fl) == Len(fl.nodes)

\* The buffer handed to FreeList::new: FlBufWords machine words starting at
\* an address that is 8-byte but not 16-byte aligned.
FlBufWords == 2048
\* Largest number of allocations held at once.
FlMaxLive == 2

FlBufStart == 2 * PAGE_SIZE + AlignOfFreeNode
FlBufLimit == FlBufStart + FlBufWords * AlignOfFreeNode

RECURSIVE Pow2(_)
Pow2(k) == IF k = 0 THEN 1 ELSE 2 * Pow2(k - 1)

\* Every power-of-two alignment up to the page size.
PageAligns == {Pow2(k) : k \in 0..12}

\* Layouts the callers of the model request from the free list; the largest
\* is one machine word short of the whole buffer.
FlSizes == {1, 24, (FlBufWords - 1) * AlignOfFreeNode}
FlAligns == {1, 16, 64, PAGE_SIZE}

FlHistInit == [op |-> "init", res |-> "Ok", ptr |-> 0, size |-> 0, align |-> 0,
               hole |-> NoHole, pre |-> <<>>, undoes |-> FALSE, between |-> FALSE]

FlInit ==
    /\ flist = FreeListNew(FlBufStart, FlBufLimit)
    /\ flLive = {}
    /\ flHist = FlHistInit
    /\ flPanic = FALSE

\* FreeList::align_layout followed by FreeList::allocate
FlAllocate ==
    \E size \in FlSizes, align \in FlAligns :
      \E layout \in {align_layout(size, align)} :
        \E a \in {FreeListAllocate(flist, layout)} :
            /\ ~flPanic
            /\ Cardinality(flLive) < FlMaxLive
            /\ UNCHANGED notFlVars
            /\ flist' = a.fl
            /\ flPanic' = (a.res = "panic")
            /\ flLive' = IF a.res = "Some"
                          THEN flLive \cup {[ptr |-> a.ptr, size |-> size, align |-> align]}
                          ELSE flLive
            /\ flHist' = [FlHistInit EXCEPT
                            !.op = "alloc", !.res = a.res, !.ptr = a.ptr,
                            !.size = layout.size, !.align = align, !.hole = a.hole,
                            !.pre = IF a.res = "Some"
                                    THEN <<flist.allocated_space, flist.free_space>>
                                    ELSE <<>>]

\* FreeList::align_layout followed by FreeList::deallocate, for an
\* allocation the caller still holds, with the layout it was requested with.
FlDeallocate ==
    \E l \in flLive :
      \E layout \in {align_layout(l.size, l.align)} :
        \E d \in {FreeListDeallocate(flist, l.ptr, layout)},
           undoes \in {flHist.op = "alloc" /\ flHist.res = "Some" /\ flHist.ptr = l.ptr} :
            /\ ~flPanic
            /\ UNCHANGED notFlVars
            /\ flist' = d.fl
            /\ flPanic' = (d.res = "panic")
            /\ flLive' = flLive \ {l}
            /\ flHist' = [FlHistInit EXCEPT
                            !.op = "dealloc", !.res = d.res, !.ptr = l.ptr,
                            !.size = layout.size, !.align = l.align,
                            !.undoes = undoes,
                            !.pre = IF undoes THEN flHist.pre ELSE <<>>,
                            !.between =
                                /\ \E k \in 1..Len(flist.nodes) :
                                        flist.nodes[k].addr + flist.nodes[k].size = l.ptr
                                /\ \E k \in 1..Len(flist.nodes) :
                                        flist.nodes[k].addr = l.ptr + layout.size]

FlNext ==
    \/ FlAllocate
    \/ FlDeallocate

(***************************************************************************)
(* Heap allocator (src/allocator/simple_allocator.rs)                      *)
(*                                                                         *)
(* usize values are kept as their signed residue modulo 2^64: a negative   *)
(* number stands for the wrapped value 2^64 - n of a build without         *)
(* overflow checks.                                                        *)
(***************************************************************************)
MINIMUM_HEAP_REGION_PAGES == 16
MINIMUM_HEAP_REGION_SIZE == MINIMUM_HEAP_REGION_PAGES * PAGE_SIZE
HEAP_RESERVE_LIMIT == 128
INITIAL_HEAP_REGION_SIZE == 128 * 1024

\* size_of::<HeapRegion>() and align_of::<HeapRegion>() on x86_64
SizeOfHeapRegion == 72
AlignOfHeapRegion == 8

\* Address of the static INITIAL_HEAP_REGION buffer: page aligned, inside the
\* kernel image, which lies below the kernel heap range.
InitialHeapBase == 64 * PAGE_SIZE
\* The kernel heap range the region manager serves to the heap (3 GiB from
\* KERNEL_HEAP_BASE in the kernel; scaled down).
HeapRangePages == 50
HeapRangeBase == 256 * PAGE_SIZE
HeapRangeLimit == HeapRangeBase + HeapRangePages * PAGE_SIZE

\* HeapRegionList::align_layout
heap_align_layout(size, align) ==
    [size |-> align_up(Max(size, SizeOfFreeNode), AlignOfFreeNode),
     align |-> Max(align, AlignOfFreeNode)]

\* Option<T>: None is the empty sequence, Some(x) is <<x>>.
\* HeapRegion::free_space
HeapRegion_free_space(region) ==
    IF region.payload = <<>> THEN 0 ELSE region.payload[1].free_list.free_space

\* HeapRegion::allocated_space
HeapRegion_allocated_space(region) ==
    IF region.payload = <<>> THEN 0 ELSE region.payload[1].free_list.allocated_space

\* HeapRegion::can_free
HeapRegion_can_free(region) ==
    IF region.payload = <<>> THEN FALSE ELSE region.payload[1].can_free

\* PayloadRegionAlloc::contains.  "overflow": limit - addr is negative, which
\* panics in a build with overflow checks and wraps to a huge value (so the
\* comparison holds) in a build without.
PayloadRegionAlloc_contains(alloc_region, addr, size) ==
    IF addr < alloc_region.start THEN "false"
    ELSE IF alloc_region.limit - addr < 0 THEN "overflow"
    ELSE IF size < alloc_region.limit - addr THEN "true"
    ELSE "false"

\* The bytes [addr, addr + size) lie in the backing span of alloc_region.
SpanHolds(alloc_region, addr, size) ==
    alloc_region.start <= addr /\ addr + size <= alloc_region.limit

\* HeapRegion::deallocate -> HeapRegionPayload::deallocate.
\* checks: the build has overflow checks.
HeapRegion_deallocate(region, ptr, layout, checks) ==
    Only({ IF c = "false" THEN [res |-> "None", region |-> region, msg |-> ""]
           ELSE IF c = "overflow" /\ checks
           THEN [res |-> "panic", region |-> region,
                 msg |-> "attempt to subtract with overflow"]
           ELSE Only({ IF d.res = "panic"
                       THEN [res |-> "panic", region |-> region,
                             msg |-> "Invalid deallocation"]
                       ELSE IF d.fl.allocated_space < 0 /\ checks
                       THEN [res |-> "panic", region |-> region,
                             msg |-> "attempt to subtract with overflow"]
                       ELSE [res |-> "Some", msg |-> "",
                             region |-> [region EXCEPT !.payload[1].free_list = d.fl]] :
                       d \in {FreeListDeallocate(region.payload[1].free_list, ptr, layout)} }) :
           c \in {PayloadRegionAlloc_contains(region.payload[1].alloc_region,
                                             ptr, layout.size)} })

\* HeapRegionList::do_deallocate: the regions are tried in list order; the
\* first that does not answer None takes the pointer.
do_deallocate(regions, ptr, layout, checks) ==
    Only({ IF tried = <<>> \/ \A k \in 1..Len(tried) : tried[k].res = "None"
           THEN [res |-> "panic", msg |-> "Failed to deallocate pointer",
                 regions |-> regions, removed_region |-> <<>>, at |-> 0]
           ELSE Only({ IF tried[k].res = "panic"
                       THEN [res |-> "panic", msg |-> tried[k].msg,
                             regions |-> regions, removed_region |-> <<>>, at |-> k]
                       ELSE IF HeapRegion_allocated_space(tried[k].region) = 0
                       THEN [res |-> "Some", msg |-> "", at |-> k,
                             regions |-> RemoveAt(regions, k),
                             removed_region |->
                                << [payload |-> <<>>, next |-> << tried[k].region >>] >>]
                       ELSE [res |-> "None", msg |-> "", at |-> k,
                             regions |-> [regions EXCEPT ![k] = tried[k].region],
                             removed_region |-> <<>>] :
                       k \in {CHOOSE k \in 1..Len(tried) :
                                /\ tried[k].res # "None"
                                /\ \A m \in 1..(k - 1) : tried[m].res = "None"} }) :
           tried \in {[k \in 1..Len(regions) |->
                        HeapRegion_deallocate(regions[k], ptr, layout, checks)]} })

RECURSIVE SumFreeSpace(_)
SumFreeSpace(regions) ==
    IF regions = <<>> THEN 0
    ELSE HeapRegion_free_space(Head(regions)) + SumFreeSpace(Tail(regions))

\* HeapRegionList::free_space
HeapRegionList_free_space(regions) == SumFreeSpace(regions)

RECURSIVE SumAllocatedSpace(_)
SumAllocatedSpace(regions) ==
    IF regions = <<>> THEN 0
    ELSE HeapRegion_allocated_space(Head(regions)) + SumAllocatedSpace(Tail(regions))

\* HeapRegionList::allocated_space
HeapRegionList_allocated_space(regions) == SumAllocatedSpace(regions)

\* The drop of a HeapRegion (drop_in_place, line 333): a Region handle goes
\* back to the region manager, the static buffer has nothing to release.
DropHeapRegion(region, va) ==
    IF region.payload[1].alloc_region.buffer THEN [pages |-> va, res |-> "Ok"]
    ELSE deallocate_recurse_thing(va, region.payload[1].alloc_region.info)

\* The decision of HeapRegionList::deallocate (lines 325-334) for the
\* region do_deallocate unlinked: removed_region is the payload-less
\* wrapper do_deallocate built, its `next` the unlinked region.
KeepOrDrop(removed_region, rest, va, regions, at) ==
    IF \/ ~HeapRegion_can_free(removed_region)
       \/ /\ HeapRegion_free_space(removed_region.next[1]) < MINIMUM_HEAP_REGION_SIZE
          /\ HeapRegionList_free_space(rest) < HEAP_RESERVE_LIMIT
    THEN [res |-> "Ok", msg |-> "", regions |-> <<removed_region.next[1]>> \o rest,
          va |-> va, at |-> at, released |-> FALSE]
    ELSE Only({ IF u.res = "panic"
                THEN [res |-> "panic", msg |-> "deallocate_region", regions |-> regions,
                      va |-> va, at |-> at, released |-> FALSE]
                ELSE [res |-> "Ok", msg |-> "", regions |-> rest, va |-> u.pages,
                      at |-> at, released |-> TRUE] :
                u \in {DropHeapRegion(removed_region.next[1], va)} })

\* HeapRegionList::deallocate.  va: the region map of the region manager.
HeapRegionList_deallocate(regions, va, ptr, size, align, checks) ==
    Only({ IF r.res = "panic"
           THEN [res |-> "panic", msg |-> r.msg, regions |-> regions, va |-> va,
                 at |-> r.at, released |-> FALSE]
           ELSE IF r.res = "None"
           THEN [res |-> "Ok", msg |-> "", regions |-> r.regions, va |-> va,
                 at |-> r.at, released |-> FALSE]
           ELSE KeepOrDrop(r.removed_region[1], r.regions, va, regions, r.at) :
           r \in {Only({ do_deallocate(regions, ptr, aligned_layout, checks) :
                         aligned_layout \in {heap_align_layout(size, align)} })} })

\* The HeapRegion written at the start of a backing span (expand_and_allocate
\* lines 437-457, SimpleAllocator::new lines 606-626).
NewHeapRegion(alloc_region, can_free) ==
    LET aligned_start == align_up(alloc_region.start, AlignOfHeapRegion)
    IN  [payload |-> << [alloc_region |-> alloc_region,
                         can_free |-> can_free,
                         free_list |-> FreeListNew(aligned_start + SizeOfHeapRegion,
                                                   alloc_region.limit)] >>]

\* SimpleAllocator::new: the list holds the bootstrap region only.
SimpleAllocatorNew ==
    << NewHeapRegion([buffer |-> TRUE, start |-> InitialHeapBase,
                      limit |-> InitialHeapBase + INITIAL_HEAP_REGION_SIZE,
                      info |-> NoInfo], FALSE) >>

\* HeapRegionList::do_allocate: the first region, in list order, whose free
\* list serves the layout.
do_allocate(regions, layout) ==
    Only({ IF \A k \in 1..Len(tried) : tried[k].res = "None"
           THEN [res |-> "None", regions |-> regions, ptr |-> 0, at |-> 0]
           ELSE Only({ IF tried[k].res = "panic"
                       THEN [res |-> "panic", regions |-> regions, ptr |-> 0, at |-> k]
                       ELSE [res |-> "Some", ptr |-> tried[k].ptr, at |-> k,
                             regions |-> [regions EXCEPT
                                            ![k].payload[1].free_list = tried[k].fl]] :
                       k \in {CHOOSE k \in 1..Len(tried) :
                                /\ tried[k].res # "None"
                                /\ \A m \in 1..(k - 1) : tried[m].res = "None"} }) :
           tried \in {[k \in 1..Len(regions) |->
                        FreeListAllocate(regions[k].payload[1].free_list, layout)]} })

\* The number of pages expand_and_allocate asks the region manager for.
allocation_pages(layout) ==
    LET header_size == align_up(SizeOfHeapRegion, AlignOfFreeNode)
        front_padding_size ==
            IF header_size = align_up(header_size, layout.align) THEN 0
            ELSE align_up(header_size + SizeOfFreeNode, layout.align) - header_size
        required_size == header_size + front_padding_size + layout.size
        back_padding_size ==
            IF header_size = align_up(required_size, PAGE_SIZE) THEN 0
            ELSE align_up(required_size + SizeOfFreeNode, PAGE_SIZE) - required_size
        allocation_size == Max(required_size + back_padding_size, MINIMUM_HEAP_REGION_SIZE)
    IN  allocation_size \div PAGE_SIZE

\* A second half of expand_and_allocate that links the new HeapRegion
\* behind the regions already in the list.
LinkAndAllocate_at_tail(regions, va, info, layout) ==
    Only({ Only({ IF a.res # "Some"
                  THEN [res |-> "panic", regions |-> regions, va |-> va, ptr |-> 0]
                  ELSE [res |-> "Some", ptr |-> a.ptr, va |-> va,
                        regions |-> regions \o
                                    << [region EXCEPT !.payload[1].free_list = a.fl] >>] :
                  a \in {FreeListAllocate(region.payload[1].free_list, layout)} }) :
           region \in {NewHeapRegion([buffer |-> FALSE, start |-> info.start_va,
                                      limit |-> info.limit_va, info |-> info], TRUE)} })

\* The second half of expand_and_allocate (lines 436-467): the HeapRegion
\* is written into the new Region, linked at the list head and serves the
\* allocation.
LinkAndAllocate(regions, va, info, layout) ==
    Only({ Only({ IF a.res # "Some"
                  THEN [res |-> "panic", regions |-> regions, va |-> va, ptr |-> 0]
                  ELSE [res |-> "Some", ptr |-> a.ptr, va |-> va,
                        regions |-> << [region EXCEPT !.payload[1].free_list = a.fl] >>
                                    \o regions] :
                  a \in {FreeListAllocate(region.payload[1].free_list, layout)} }) :
           region \in {NewHeapRegion([buffer |-> FALSE, start |-> info.start_va,
                                      limit |-> info.limit_va, info |-> info], TRUE)} })

\* HeapRegionList::expand_and_allocate.  mem: what the frame allocator does
\* while the region manager maps the new region.
expand_and_allocate(regions, va, layout, mem) ==
    Only({ IF r.res \in {"panic", "hang"}
           THEN [res |-> r.res, regions |-> regions, va |-> va, ptr |-> 0]
           ELSE IF r.res # "Ok"
           THEN [res |-> "None", regions |-> regions, va |-> r.pages, ptr |-> 0]
           ELSE LinkAndAllocate(regions, r.pages, r.info, layout) :
           r \in {Only({ allocate_region(va, pages, "Heap",
                                         mem # "noFrame", mem, FALSE) :
                         pages \in {allocation_pages(layout)} })} })

\* HeapRegionList::alloc
HeapRegionList_alloc(regions, va, size, align, mem) ==
    Only({ Only({ IF a.res = "panic"
                  THEN [res |-> "panic", regions |-> regions, va |-> va, ptr |-> 0,
                        grew |-> FALSE]
                  ELSE IF a.res = "Some"
                  THEN [res |-> "Some", regions |-> a.regions, va |-> va, ptr |-> a.ptr,
                        grew |-> FALSE]
                  ELSE Only({ [res |-> e.res, regions |-> e.regions, va |-> e.va,
                               ptr |-> e.ptr, grew |-> e.res = "Some"] :
                              e \in {expand_and_allocate(regions, va, aligned_layout, mem)} }) :
                  a \in {do_allocate(regions, aligned_layout)} }) :
           aligned_layout \in {heap_align_layout(size, align)} })

\* Largest number of heap allocations held at once.
HeapMaxLive == 2
\* The free bytes of the bootstrap region once its header is in place.
InitialHeapFree == INITIAL_HEAP_REGION_SIZE - SizeOfHeapRegion
\* Layouts the kernel requests from the global allocator.
HeapSizes == {16, InitialHeapFree}
HeapAligns == {AlignOfFreeNode, PAGE_SIZE}

HeapHistInit == [op |-> "init", res |-> "Ok", msg |-> "", ptr |-> 0, size |-> 0,
                 span |-> FALSE, grew |-> FALSE, released |-> FALSE]

HeapInit ==
    /\ heapRegions = SimpleAllocatorNew
    /\ heapVa = RegionManagerNew(HeapRangeBase, HeapRangeLimit)
    /\ heapLive = {}
    /\ heapHist = HeapHistInit
    /\ heapPanic = FALSE
    /\ heapGrew = FALSE

\* GlobalAlloc::alloc
HeapAlloc ==
    \E size \in HeapSizes, align \in HeapAligns, mem \in MemOutcomesOf("Heap") :
        \E a \in {HeapRegionList_alloc(heapRegions, heapVa, size, align, mem)} :
            /\ ~heapPanic
            /\ Cardinality(heapLive) < HeapMaxLive
            /\ UNCHANGED notHeapVars
            /\ heapRegions' = a.regions
            /\ heapVa' = a.va
            /\ heapPanic' = (a.res \in {"panic", "hang"})
            /\ heapGrew' = (heapGrew \/ a.grew)
            /\ heapLive' = IF a.res = "Some"
                            THEN heapLive \cup {[ptr |-> a.ptr, size |-> size, align |-> align]}
                            ELSE heapLive
            /\ heapHist' = [HeapHistInit EXCEPT
                                !.op = "alloc", !.res = a.res, !.ptr = a.ptr,
                                !.size = heap_align_layout(size, align).size,
                                !.grew = a.grew]

\* GlobalAlloc::dealloc of an allocation the caller still holds, with the
\* layout it was requested with.  checks: the build has overflow checks.
HeapDealloc ==
    \E l \in heapLive, checks \in BOOLEAN :
        \E d \in {HeapRegionList_deallocate(heapRegions, heapVa, l.ptr, l.size, l.align, checks)},
           layout \in {heap_align_layout(l.size, l.align)} :
            /\ ~heapPanic
            /\ UNCHANGED notHeapVars
            /\ heapRegions' = d.regions
            /\ heapVa' = d.va
            /\ heapPanic' = (d.res = "panic")
            /\ heapGrew' = heapGrew
            /\ heapLive' = heapLive \ {l}
            /\ heapHist' = [HeapHistInit EXCEPT
                                !.op = "dealloc", !.res = d.res, !.msg = d.msg,
                                !.ptr = l.ptr, !.size = layout.size,
                                !.span = /\ d.at > 0
                                         /\ SpanHolds(heapRegions[d.at].payload[1].alloc_region,
                                                      l.ptr, layout.size),
                                !.released = d.released]

HeapNext ==
    \/ HeapAlloc
    \/ HeapDealloc

(***************************************************************************)
(* Scheduler (src/scheduler/task.rs, reschedule.rs, arch_context.rs)       *)
(***************************************************************************)
\* Number of CPUs (cpu 0 is the BSP).
NumCpus == 2
Cpus == 0..(NumCpus - 1)
\* Largest number of tasks scheduler::spawn creates.
MaxSpawned == 2

PRIORITIES_COUNT == 2
\* TaskPriority::Idle and TaskPriority::Normal as usize
PriorityIdle == 0
PriorityNormal == 1

\* None of Option<Box<TaskControl>> and of TaskInit.cpu_id
NoTask == 0
NoCpu == -1

\* TaskDirectoryData::create_task plus the TaskControl box make_current or
\* make_runnable puts around the task: state after the transition out of
\* New, priority and cpu_id of TaskInit.  entered: the task has executed
\* (an idle task is executing when it is created).
NewTask(state, priority, cpu_id, entered) ==
    [state |-> state, priority |-> priority, cpu_id |-> cpu_id, entered |-> entered]

\* An add_to_ready_list that queues the task at the other priority level.
add_to_ready_list_other_level(lists, tasks, t) ==
    IF tasks[t].state # "Ready" THEN [res |-> "panic", lists |-> lists]
    ELSE [res |-> "Ok",
          lists |-> [lists EXCEPT ![PRIORITIES_COUNT - 1 - tasks[t].priority] = Append(@, t)]]

\* TaskDirectoryData::add_to_ready_list
add_to_ready_list(lists, tasks, t) ==
    IF tasks[t].state # "Ready" THEN [res |-> "panic", lists |-> lists]
    ELSE [res |-> "Ok",
          lists |-> [lists EXCEPT ![tasks[t].priority] = Append(@, t)]]

\* An affinity test that admits every task on every CPU.
Admitted_any_cpu(lists, tasks, priority_index, this_cpu) ==
    1..Len(lists[priority_index])

\* The positions of ready list priority_index whose task may run on this_cpu.
Admitted(lists, tasks, priority_index, this_cpu) ==
    {i \in 1..Len(lists[priority_index]) :
        \/ tasks[lists[priority_index][i]].cpu_id = NoCpu
        \/ tasks[lists[priority_index][i]].cpu_id = this_cpu}

\* TaskDirectoryData::find_next_task, with the unlinking of the entry it
\* returns selectable (remove: pos.remove() takes the entry off the list).
FindNextWith(lists, tasks, min_priority_index, this_cpu, remove) ==
    LET levels == {p \in min_priority_index..(PRIORITIES_COUNT - 1) :
                        Admitted(lists, tasks, p, this_cpu) # {}}
    IN  IF levels = {} THEN [task |-> NoTask, lists |-> lists]
        ELSE
        LET p == CHOOSE p \in levels : \A q \in levels : q <= p
            i == CHOOSE i \in Admitted(lists, tasks, p, this_cpu) :
                    \A j \in Admitted(lists, tasks, p, this_cpu) : i <= j
        IN  [task |-> lists[p][i],
             lists |-> IF remove THEN [lists EXCEPT ![p] = RemoveAt(@, i)] ELSE lists]

\* A find_next_task that returns the entry and leaves it linked.
find_next_task_keeps_entry(lists, tasks, min_priority_index, this_cpu) ==
    FindNextWith(lists, tasks, min_priority_index, this_cpu, FALSE)

\* A find_next_task that scans every level, whatever the current priority.
find_next_task_any_level(lists, tasks, min_priority_index, this_cpu) ==
    FindNextWith(lists, tasks, 0, this_cpu, TRUE)

\* TaskDirectoryData::find_next_task
find_next_task(lists, tasks, min_priority_index, this_cpu) ==
    FindNextWith(lists, tasks, min_priority_index, this_cpu, TRUE)

\* CurrentTask::new, and where the CPU is: "boot" before scheduler::init,
\* "run" in the code of its current task, "reschedule" at the call of
\* reschedule() in make_runnable, "prepare" holding next_task before
\* prepare_task_switch, "switch" inside do_switch before
\* complete_task_switch, "return" at the ret of do_switch.
NewCpu == [current |-> NoTask, old |-> NoTask, next_task |-> NoTask, pc |-> "boot"]

SchedInit ==
    /\ schedTasks = <<>>
    /\ ready_lists = [p \in 0..(PRIORITIES_COUNT - 1) |-> <<>>]
    /\ schedCpus = [c \in Cpus |-> NewCpu]
    /\ schedPanic = FALSE

SchedPanics ==
    /\ schedPanic' = TRUE
    /\ UNCHANGED <<schedTasks, ready_lists, schedCpus>>

\* scheduler::init(cpu_id): Task::new_idle, then Task::make_current and
\* set_initial_task.  The BSP does it before it starts the other CPUs.
SchedulerInit(c) ==
    /\ ~schedPanic
    /\ schedCpus[c].pc = "boot"
    /\ c = 0 \/ schedCpus[0].pc # "boot"
    /\ UNCHANGED notSchedVars
    /\ IF schedCpus[c].current # NoTask
       THEN SchedPanics
       ELSE /\ schedTasks' = Append(schedTasks, NewTask("Running", PriorityIdle, c, TRUE))
            /\ schedCpus' = [schedCpus EXCEPT ![c].current = Len(schedTasks) + 1,
                                              ![c].pc = "run"]
            /\ UNCHANGED <<ready_lists, schedPanic>>

\* scheduler::spawn up to the call of reschedule() in Task::make_runnable:
\* Task::spawn (stackOk: allocate_kernel_stack succeeds), make_runnable
\* puts the task, Ready, on the ready list of its priority.
Spawn(c) ==
    /\ ~schedPanic
    /\ schedCpus[c].pc = "run"
    /\ Len(schedTasks) < NumCpus + MaxSpawned
    /\ UNCHANGED notSchedVars
    /\ \E stackOk \in BOOLEAN :
        IF ~stackOk
        THEN UNCHANGED schedVars
        ELSE \E tasks \in {Append(schedTasks, NewTask("Ready", PriorityNormal, NoCpu, FALSE))} :
             \E a \in {add_to_ready_list(ready_lists, tasks, Len(tasks))} :
                IF a.res = "panic"
                THEN SchedPanics
                ELSE /\ schedTasks' = tasks
                     /\ ready_lists' = a.lists
                     /\ schedCpus' = [schedCpus EXCEPT ![c].pc = "reschedule"]
                     /\ UNCHANGED schedPanic

\* CurrentTask::reschedule up to prepare_task_switch: find_next_task with
\* the priority of the current task.
Reschedule(c) ==
    /\ ~schedPanic
    /\ schedCpus[c].pc \in {"run", "reschedule"}
    /\ UNCHANGED notSchedVars
    /\ \E f \in {find_next_task(ready_lists, schedTasks,
                                schedTasks[schedCpus[c].current].priority, c)} :
        /\ ready_lists' = f.lists
        /\ schedCpus' = [schedCpus EXCEPT
                            ![c].next_task = f.task,
                            ![c].pc = IF f.task = NoTask THEN "run" ELSE "prepare"]
        /\ UNCHANGED <<schedTasks, schedPanic>>

\* A prepare_task_switch that does not call set_running on the new task.
PrepareTaskSwitch_no_set_running(c) ==
    /\ ~schedPanic
    /\ schedCpus[c].pc = "prepare"
    /\ UNCHANGED notSchedVars
    /\ IF schedCpus[c].old # NoTask
       THEN SchedPanics
       ELSE /\ schedCpus' = [schedCpus EXCEPT ![c].old = schedCpus[c].current,
                                              ![c].current = schedCpus[c].next_task,
                                              ![c].next_task = NoTask,
                                              ![c].pc = "switch"]
            /\ UNCHANGED <<schedTasks, ready_lists, schedPanic>>

\* CurrentTask::prepare_task_switch
PrepareTaskSwitch(c) ==
    /\ ~schedPanic
    /\ schedCpus[c].pc = "prepare"
    /\ UNCHANGED notSchedVars
    /\ IF \/ schedCpus[c].old # NoTask
          \/ schedTasks[schedCpus[c].next_task].state # "Ready"
       THEN SchedPanics
       ELSE /\ schedCpus' = [schedCpus EXCEPT ![c].old = schedCpus[c].current,
                                              ![c].current = schedCpus[c].next_task,
                                              ![c].next_task = NoTask,
                                              ![c].pc = "switch"]
            /\ schedTasks' = [schedTasks EXCEPT ![schedCpus[c].next_task].state = "Running"]
            /\ UNCHANGED <<ready_lists, schedPanic>>

\* complete_task_switch, called by do_switch on the stack of the incoming
\* task: CurrentTask::complete_task_switch and TaskControl::make_ready.
CompleteTaskSwitch(c) ==
    /\ ~schedPanic
    /\ schedCpus[c].pc = "switch"
    /\ UNCHANGED notSchedVars
    /\ IF \/ schedCpus[c].old = NoTask
          \/ schedTasks[schedCpus[c].old].state # "Running"
       THEN SchedPanics
       ELSE \E tasks \in {[schedTasks EXCEPT ![schedCpus[c].old].state = "Ready"]} :
            \E a \in {add_to_ready_list(ready_lists, tasks, schedCpus[c].old)} :
                IF a.res = "panic"
                THEN SchedPanics
                ELSE /\ schedTasks' = tasks
                     /\ ready_lists' = a.lists
                     /\ schedCpus' = [schedCpus EXCEPT ![c].old = NoTask, ![c].pc = "return"]
                     /\ UNCHANGED schedPanic

\* The ret of do_switch.  A task that runs for the first time returns into
\* launch_trampoline and its function; a task that ran before returns into
\* its reschedule() call behind switch_to, which is todo!().
ReturnFromSwitch(c) ==
    /\ ~schedPanic
    /\ schedCpus[c].pc = "return"
    /\ UNCHANGED notSchedVars
    /\ IF schedTasks[schedCpus[c].current].entered
       THEN SchedPanics
       ELSE /\ schedTasks' = [schedTasks EXCEPT ![schedCpus[c].current].entered = TRUE]
            /\ schedCpus' = [schedCpus EXCEPT ![c].pc = "run"]
            /\ UNCHANGED <<ready_lists, schedPanic>>

SchedNext ==
    \E c \in Cpus :
        \/ SchedulerInit(c)
        \/ Spawn(c)
        \/ Reschedule(c)
        \/ PrepareTaskSwitch(c)
        \/ CompleteTaskSwitch(c)
        \/ ReturnFromSwitch(c)

(***************************************************************************)
(* Pids (src/scheduler/task.rs: generate_pid, create_task)                 *)
(***************************************************************************)
\* Width in bits of one pid range; the top 13 bits of a pid tell the ranges
\* apart (51 + 13 = 64 bits in the source).
PidRangeBits == 3
UsizeBits == PidRangeBits + 13
USIZE_MAX == 2^UsizeBits - 1

\* 0xfff8_0000_0000_0000 and 0x0007_ffff_ffff_ffff
MIN_SYSTEM_PID == 2^UsizeBits - 2^PidRangeBits
MAX_PID == 2^PidRangeBits - 1

\* A scan that takes next_pid as it is.
SkipNothing(map, n) == n

\* while self.process_map.contains_key(&self.next_pid) { self.next_pid += 1; }
RECURSIVE SkipUsedUp(_, _)
SkipUsedUp(map, n) ==
    IF n \in map THEN SkipUsedUp(map, (n + 1) % 2^UsizeBits) ELSE n

\* while self.process_map.contains_key(&self.next_system_pid) { self.next_system_pid -= 1; }
RECURSIVE SkipUsedDown(_, _)
SkipUsedDown(map, n) ==
    IF n \in map THEN SkipUsedDown(map, (n - 1) % 2^UsizeBits) ELSE n

\* TaskDirectoryData::generate_pid: the result, the pid, and the two
\* counters as the call leaves them.
generate_pid(map, np, nsp, system_task) ==
    IF system_task
    THEN Only({ IF n <= MIN_SYSTEM_PID
                THEN [res |-> "OutOfPids", pid |-> 0, next_pid |-> np, next_system_pid |-> n]
                ELSE [res |-> "Ok", pid |-> n, next_pid |-> np,
                      next_system_pid |-> (n - 1) % 2^UsizeBits]
                : n \in {SkipUsedDown(map, IF nsp <= MIN_SYSTEM_PID THEN USIZE_MAX ELSE nsp)} })
    ELSE Only({ IF n >= MAX_PID
                THEN [res |-> "OutOfPids", pid |-> 0, next_pid |-> n, next_system_pid |-> nsp]
                ELSE [res |-> "Ok", pid |-> n, next_pid |-> (n + 1) % 2^UsizeBits,
                      next_system_pid |-> nsp]
                : n \in {SkipUsedUp(map, IF np >= MAX_PID THEN 0 ELSE np)} })

PidHistInit == [op |-> "init", system_task |-> FALSE, res |-> "Ok", pid |-> 0, pre |-> {}]

\* TaskDirectoryData::new
PidInit ==
    /\ process_map = {}
    /\ next_pid = 0
    /\ next_system_pid = USIZE_MAX
    /\ pidHist = PidHistInit

\* TaskDirectoryData::create_task: the ? on generate_pid returns before the
\* task is built and inserted.
CreateTask ==
    /\ UNCHANGED notPidVars
    /\ \E system_task \in BOOLEAN :
       \E g \in {generate_pid(process_map, next_pid, next_system_pid, system_task)} :
        /\ next_pid' = g.next_pid
        /\ next_system_pid' = g.next_system_pid
        /\ process_map' = IF g.res = "Ok" THEN process_map \cup {g.pid} ELSE process_map
        /\ pidHist' = [op |-> "create", system_task |-> system_task, res |-> g.res,
                       pid |-> g.pid, pre |-> process_map]

PidNext == CreateTask

(***************************************************************************)
(* InitMutex (src/init_mutex.rs)                                           *)
(***************************************************************************)
\* Largest number of init calls, and the values T stored.
ImMaxInits == 3
ImMaxValue == 3
ImValues == 1..ImMaxValue

\* InitMutex::init: *self.lock.lock() = Some(t)
InitMutex_init(value, t) == [res |-> "Ok", value |-> <<t>>]

\* A dereference that hands out whatever the Option holds.
InitMutexGuard_deref_unchecked(value) == [res |-> "Ok", ref |-> value]

\* InitMutexGuard::deref and deref_mut:
\* self.guard.as_ref().expect("InitMutexGuard has not been initialized")
InitMutexGuard_deref(value) ==
    IF value = <<>> THEN [res |-> "panic", ref |-> <<>>]
    ELSE [res |-> "Ok", ref |-> value]

ImHistInit == [op |-> "new", cpu |-> NoCpu, res |-> "Ok", pre |-> <<>>, ref |-> <<>>]

\* InitMutex::new
ImInit ==
    /\ imValue = <<>>
    /\ imHolder = NoCpu
    /\ imInits = 0
    /\ imHist = ImHistInit
    /\ imPanic = FALSE

\* init(t) on CPU c.  The spin lock is taken when no guard is held and is
\* released when the statement ends.
ImInitCall(c) ==
    /\ ~imPanic
    /\ imHolder = NoCpu
    /\ imInits < ImMaxInits
    /\ UNCHANGED notImVars
    /\ \E t \in ImValues :
       \E r \in {InitMutex_init(imValue, t)} :
        /\ imValue' = r.value
        /\ imInits' = imInits + 1
        /\ imHist' = [op |-> "init", cpu |-> c, res |-> r.res, pre |-> imValue, ref |-> <<>>]
        /\ imPanic' = (r.res = "panic")
        /\ UNCHANGED imHolder

\* lock() on CPU c: the guard around the spin lock's guard.
ImLock(c) ==
    /\ ~imPanic
    /\ imHolder = NoCpu
    /\ UNCHANGED notImVars
    /\ imHolder' = c
    /\ imHist' = [op |-> "lock", cpu |-> c, res |-> "Ok", pre |-> imValue, ref |-> <<>>]
    /\ UNCHANGED <<imValue, imInits, imPanic>>

\* *guard on CPU c (Deref)
ImDeref(c) ==
    /\ ~imPanic
    /\ imHolder = c
    /\ UNCHANGED notImVars
    /\ \E r \in {InitMutexGuard_deref(imValue)} :
        /\ imHist' = [op |-> "deref", cpu |-> c, res |-> r.res, pre |-> imValue, ref |-> r.ref]
        /\ imPanic' = (r.res = "panic")
        /\ UNCHANGED <<imValue, imHolder, imInits>>

\* *guard = ... on CPU c (DerefMut): the caller may change the T it reaches.
ImDerefMut(c) ==
    /\ ~imPanic
    /\ imHolder = c
    /\ UNCHANGED notImVars
    /\ \E r \in {InitMutexGuard_deref(imValue)} :
        /\ imHist' = [op |-> "deref_mut", cpu |-> c, res |-> r.res, pre |-> imValue, ref |-> r.ref]
        /\ imPanic' = (r.res = "panic")
        /\ IF r.res = "panic" THEN UNCHANGED imValue
           ELSE \E t \in ImValues : imValue' = <<t>>
        /\ UNCHANGED <<imHolder, imInits>>

\* The guard of CPU c goes out of scope.
ImDropGuard(c) ==
    /\ ~imPanic
    /\ imHolder = c
    /\ UNCHANGED notImVars
    /\ imHolder' = NoCpu
    /\ imHist' = [op |-> "drop", cpu |-> c, res |-> "Ok", pre |-> imValue, ref |-> <<>>]
    /\ UNCHANGED <<imValue, imInits, imPanic>>

ImNext ==
    \E c \in Cpus :
        \/ ImInitCall(c)
        \/ ImLock(c)
        \/ ImDeref(c)
        \/ ImDerefMut(c)
        \/ ImDropGuard(c)

(***************************************************************************)
(* Frame allocator zones (src/physmem/frame_database.rs)                   *)
(***************************************************************************)
\* const MINIMUM_ADDRESS: usize = 0x1_0000
MINIMUM_ADDRESS == 65536
\* LOW_REGION_BASE / PAGE_SIZE
UNUSED_LOW_FRAMES == MINIMUM_ADDRESS \div PAGE_SIZE
\* The frame limits of the zones (4096, 1 Mi and 2^52 - 1 frames in the
\* source), brought down to a memory of a few frames.
LOW_REGION_FRAMES == 20
NORMAL_REGION_FRAMES == 24
HIGH_REGION_FRAMES == 28

\* MemoryRegion of the boot info: a range of frames and its type.
MemoryRegion(start_frame_number, end_frame_number, region_type) ==
    [start_addr |-> start_frame_number * PAGE_SIZE,
     end_addr |-> end_frame_number * PAGE_SIZE,
     region_type |-> region_type]

\* Boot memory maps: regions in address order that do not overlap.
FrMemoryMaps ==
    { << MemoryRegion(0, 14, "Reserved"), MemoryRegion(14, 17, "PageTable"),
         MemoryRegion(17, 18, "Usable"),
         MemoryRegion(19, 20, "Bootloader"), MemoryRegion(21, 22, "Usable"),
         MemoryRegion(23, 25, "PageTable") >>,
      << MemoryRegion(15, 17, "Usable"), MemoryRegion(17, 19, "Kernel"),
         MemoryRegion(19, 21, "Usable"), MemoryRegion(22, 23, "BootInfo"),
         MemoryRegion(24, 25, "Usable"), MemoryRegion(25, 26, "KernelStack") >> }

usable(region_type) == region_type = "Usable"

reclaimable(region_type) ==
    region_type \in {"KernelStack", "PageTable", "Bootloader", "BootInfo", "Package"}

\* filter_memory_map and MemoryMapFilter::next: the regions of the wanted
\* kind (usable or reclaimable), cut to the frame range, in map order.
RECURSIVE filter_memory_map(_, _, _, _)
filter_memory_map(start_frame, limit_frame, memory_map, wantUsable) ==
    IF memory_map = <<>> THEN <<>>
    ELSE Only({
        (IF r.limit > r.base /\ r.ok THEN << [base |-> r.base, limit |-> r.limit] >> ELSE <<>>)
            \o filter_memory_map(start_frame, limit_frame, Tail(memory_map), wantUsable)
        : r \in {[base |-> Max(Head(memory_map).start_addr,
                               Max(start_frame * PAGE_SIZE, MINIMUM_ADDRESS)),
                  limit |-> Min(Head(memory_map).end_addr,
                                Max(limit_frame * PAGE_SIZE, MINIMUM_ADDRESS)),
                  ok |-> IF wantUsable THEN usable(Head(memory_map).region_type)
                         ELSE reclaimable(Head(memory_map).region_type)]} })

\* free_span_start_frame..free_span_end_frame of one filtered region: bit
\* indices relative to start_frame.
FreeSpan(region, start_frame, limit_frame) ==
    (Max(region.base \div PAGE_SIZE, start_frame) - start_frame)
        .. (Min(region.limit \div PAGE_SIZE, limit_frame) - start_frame - 1)

\* The loops of PageFrameRegion::new and reclaim over the filtered regions:
\* every frame of every span has its bit set and adds one to free_frames.
\* A bit found set by reclaim is the assert "Reclaiming frame that is
\* already marked free".
RECURSIVE MarkFree(_, _, _)
MarkFree(zone, regions, reclaiming) ==
    IF regions = <<>> THEN [res |-> "Ok", zone |-> zone]
    ELSE Only({
        IF reclaiming /\ span \cap zone.bitmask # {}
        THEN [res |-> "panic", zone |-> zone]
        ELSE MarkFree([zone EXCEPT !.bitmask = @ \cup span,
                                   !.free_frames = @ + Cardinality(span)],
                      Tail(regions), reclaiming)
        : span \in {FreeSpan(Head(regions), zone.start_frame, zone.limit_frame)} })

\* A PageFrameRegion::new that marks every usable frame of the memory map
\* below limit_frame, with neither the cut of filter_memory_map nor the
\* max(start_frame) of the span.
PageFrameRegion_new_unfiltered(start_frame, limit_frame, memory_map) ==
    Only({ [start_frame |-> start_frame, limit_frame |-> limit_frame,
            free_frames |-> Cardinality(frames), used_frames |-> 0,
            bitmask |-> {f - start_frame : f \in frames}]
           : frames \in {{f \in 0..(limit_frame - 1) :
                            \E i \in 1..Len(memory_map) :
                                /\ usable(memory_map[i].region_type)
                                /\ memory_map[i].start_addr <= f * PAGE_SIZE
                                /\ f * PAGE_SIZE < memory_map[i].end_addr}} })

\* PageFrameRegion::new (PageFrameRegion::alloc gives it a bitmask from the
\* heap that covers every usable or reclaimable frame of the zone).
PageFrameRegion_new(start_frame, limit_frame, memory_map) ==
    MarkFree([start_frame |-> start_frame, limit_frame |-> limit_frame,
              free_frames |-> 0, used_frames |-> 0, bitmask |-> {}],
             filter_memory_map(start_frame, limit_frame, memory_map, TRUE), FALSE).zone

\* PageFrameRegion::reclaim
PageFrameRegion_reclaim(zone, memory_map) ==
    MarkFree(zone, filter_memory_map(zone.start_frame, zone.limit_frame, memory_map, FALSE),
             TRUE)

\* An allocate_frame that leaves the bit of the frame it returns set.
PageFrameRegion_allocate_frame_keeps_bit(zone) ==
    IF zone.bitmask = {} THEN [frame |-> <<>>, zone |-> zone]
    ELSE [frame |-> << Only({i \in zone.bitmask : \A j \in zone.bitmask : i <= j})
                        + zone.start_frame >>,
          zone |-> [zone EXCEPT !.free_frames = @ - 1, !.used_frames = @ + 1]]

\* PageFrameRegion::allocate_frame: the lowest set bit of the first byte
\* that is not zero.
PageFrameRegion_allocate_frame(zone) ==
    IF zone.bitmask = {} THEN [frame |-> <<>>, zone |-> zone]
    ELSE Only({ [frame |-> << frame_index + zone.start_frame >>,
                 zone |-> [zone EXCEPT !.bitmask = @ \ {frame_index},
                                       !.free_frames = @ - 1,
                                       !.used_frames = @ + 1]]
                : frame_index \in {i \in zone.bitmask : \A j \in zone.bitmask : i <= j} })

\* PageFrameRegion::contains_frame
PageFrameRegion_contains_frame(zone, frame) ==
    frame >= zone.start_frame /\ frame < zone.limit_frame

\* A deallocate_frame that forgets used_frames.
PageFrameRegion_deallocate_frame_keeps_used(zone, frame) ==
    [res |-> "Ok",
     zone |-> [zone EXCEPT !.bitmask = @ \cup {frame - zone.start_frame},
                           !.free_frames = @ + 1]]

\* PageFrameRegion::deallocate_frame
PageFrameRegion_deallocate_frame(zone, frame) ==
    IF ~PageFrameRegion_contains_frame(zone, frame)
    THEN [res |-> "panic", zone |-> zone]
    ELSE [res |-> "Ok",
          zone |-> [zone EXCEPT !.bitmask = @ \cup {frame - zone.start_frame},
                                !.free_frames = @ + 1,
                                !.used_frames = @ - 1]]

(***************************************************************************)
(* Zones, page-table entries and region mapping                            *)
(* (physmem zone selection, src/paging/mapper.rs, src/paging/heap_region.rs) *)
(***************************************************************************)
\* Pages of the region range, and the most frames a caller holds unmapped.
FrVaPages == 2
FrMaxHeld == 1
\* Frames of device memory: in no usable or reclaimable region of the map.
DeviceFrames == {26, 27}

LowZone == 1
NormalZone == 2
HighZone == 3

\* The zones tried in the given order until one has a frame.
RECURSIVE AllocateIn(_, _)
AllocateIn(zones, order) ==
    IF order = <<>> THEN [frame |-> <<>>, zones |-> zones]
    ELSE Only({ IF a.frame # <<>>
                THEN [frame |-> a.frame, zones |-> [zones EXCEPT ![Head(order)] = a.zone]]
                ELSE AllocateIn(zones, Tail(order))
                : a \in {PageFrameRegion_allocate_frame(zones[Head(order)])} })

\* physmem::allocate_kernel_frame: Normal, then Low.
allocate_kernel_frame(zones) == AllocateIn(zones, <<NormalZone, LowZone>>)

\* physmem::allocate_user_frame: High, Normal, then Low.
allocate_user_frame(zones) == AllocateIn(zones, <<HighZone, NormalZone, LowZone>>)

\* The first zone whose range contains the frame.
ZoneOf(zones, frame) ==
    Only({y \in 1..Len(zones) :
            /\ PageFrameRegion_contains_frame(zones[y], frame)
            /\ \A x \in 1..(y - 1) : ~PageFrameRegion_contains_frame(zones[x], frame)})

\* physmem::deallocate_frame: the zone whose range contains the frame.
deallocate_frame(zones, frame) ==
    IF \A z \in 1..Len(zones) : ~PageFrameRegion_contains_frame(zones[z], frame)
    THEN [res |-> "panic", zones |-> zones]
    ELSE Only({ Only({ [res |-> d.res, zones |-> [zones EXCEPT ![z] = d.zone]]
                       : d \in {PageFrameRegion_deallocate_frame(zones[z], frame)} })
                : z \in {ZoneOf(zones, frame)} })

\* RawPte::unused(), a present PTE and the kernel stack guard page PTE.
UnusedPte == [kind |-> "unused", frame |-> 0]
PresentPte(frame) == [kind |-> "present", frame |-> frame]
GuardPagePte == [kind |-> "guard", frame |-> 0]

\* Mapper::map_to and Mapper::set_not_present: the entry must be unused.
SetPte(pte, page, entry) ==
    IF pte[page] # UnusedPte THEN [res |-> "panic", pte |-> pte]
    ELSE [res |-> "Ok", pte |-> [pte EXCEPT ![page] = entry]]

\* The unmap of one page: a present entry gives its frame back when
\* free_pages is set; the entry becomes unused.
unmap(zones, pte, page, free_pages) ==
    IF pte[page].kind = "present" /\ free_pages
    THEN Only({ [res |-> d.res, zones |-> d.zones, pte |-> [pte EXCEPT ![page] = UnusedPte]]
                : d \in {deallocate_frame(zones, pte[page].frame)} })
    ELSE [res |-> "Ok", zones |-> zones, pte |-> [pte EXCEPT ![page] = UnusedPte]]

\* RegionManager::unmap_nonpaged over the pages base .. limit - 1
RECURSIVE unmap_nonpaged(_, _, _, _, _)
unmap_nonpaged(zones, pte, base, limit, free_pages) ==
    IF base >= limit THEN [res |-> "Ok", zones |-> zones, pte |-> pte]
    ELSE Only({ IF u.res = "panic" THEN u
                ELSE unmap_nonpaged(u.zones, u.pte, base + 1, limit, free_pages)
                : u \in {unmap(zones, pte, base, free_pages)} })

\* The try block of RegionManager::map_nonpaged_impl: one user frame per page.
RECURSIVE MapPages(_, _, _, _)
MapPages(zones, pte, base, limit) ==
    IF base >= limit THEN [res |-> "Ok", zones |-> zones, pte |-> pte]
    ELSE Only({ IF a.frame = <<>>
                THEN [res |-> "OutOfMemory", zones |-> zones, pte |-> pte]
                ELSE Only({ IF m.res = "panic"
                            THEN [res |-> "panic", zones |-> a.zones, pte |-> pte]
                            ELSE MapPages(a.zones, m.pte, base + 1, limit)
                            : m \in {SetPte(pte, base, PresentPte(a.frame[1]))} })
                : a \in {allocate_user_frame(zones)} })

\* RegionManager::map_nonpaged_impl: a failed mapping calls unmap_nonpaged
\* for unmap_base .. unmap_limit, whose lock_page_table (heap_region.rs:644)
\* spins on the lock the caller of map_nonpaged_impl holds (368, 392): the
\* call never returns and the pages mapped so far stay mapped.
map_nonpaged_impl(zones, pte, base, limit, unmap_base, unmap_limit) ==
    Only({ IF m.res = "OutOfMemory"
           THEN [res |-> "hang", zones |-> m.zones, pte |-> m.pte]
           ELSE m
           : m \in {MapPages(zones, pte, base, limit)} })

\* RegionManager::map_kernel_stack: the guard page, then the stack pages.
map_kernel_stack(zones, pte, base, limit) ==
    Only({ IF g.res = "panic" THEN [res |-> "panic", zones |-> zones, pte |-> pte]
           ELSE map_nonpaged_impl(zones, g.pte, base + 1, limit, base, limit)
           : g \in {SetPte(pte, base, GuardPagePte)} })

\* RegionManager::map_physical_memory: the pages map the frames from
\* physical_address on.
RECURSIVE map_physical_memory(_, _, _, _)
map_physical_memory(pte, physical_frame, base, limit) ==
    IF base >= limit THEN [res |-> "Ok", pte |-> pte]
    ELSE Only({ IF m.res = "panic" THEN m
                ELSE map_physical_memory(m.pte, physical_frame + 1, base + 1, limit)
                : m \in {SetPte(pte, base, PresentPte(physical_frame))} })

\* An unmap_region that frees the frames of every region type.
unmap_region_frees_all(zones, pte, region) ==
    unmap_nonpaged(zones, pte, region.base, region.limit, TRUE)

\* RegionManager::unmap_region
unmap_region(zones, pte, region) ==
    unmap_nonpaged(zones, pte, region.base, region.limit,
                   region.rtype \in {"Heap", "KernelStack"})

FrHistInit == [op |-> "boot", res |-> "Ok", frames |-> {}, zone |-> 0,
               preZones |-> <<>>, preAllocated |-> {}, preMapped |-> {}]

\* The frames the present entries of the given pages map.
FramesMapped(pte, pages) == {pte[p].frame : p \in {q \in pages : pte[q].kind = "present"}}

FrHist(op, res, frames, zone) ==
    [op |-> op, res |-> res, frames |-> frames, zone |-> zone,
     preZones |-> frZones, preAllocated |-> frAllocated,
     preMapped |-> FramesMapped(frPte, 0..(FrVaPages - 1))]

\* Before physmem::early_init: no zone is initialized, nothing is mapped.
FrInit ==
    /\ frMemoryMap = <<>>
    /\ frPhase = "boot"
    /\ frZones = <<>>
    /\ frAllocated = {}
    /\ frHeld = {}
    /\ frPte = [p \in 0..(FrVaPages - 1) |-> UnusedPte]
    /\ frRegions = {}
    /\ frHist = FrHistInit
    /\ frPanic = FALSE

\* physmem::early_init: LOW_REGION from the boot memory map.
FrEarlyInit ==
    /\ ~frPanic
    /\ frPhase = "boot"
    /\ UNCHANGED notFrVars
    /\ \E memory_map \in FrMemoryMaps :
        /\ frMemoryMap' = memory_map
        /\ frZones' = << PageFrameRegion_new(UNUSED_LOW_FRAMES, LOW_REGION_FRAMES, memory_map) >>
    /\ frPhase' = "early"
    /\ frHist' = FrHist("early_init", "Ok", {}, LowZone)
    /\ UNCHANGED <<frAllocated, frHeld, frPte, frRegions, frPanic>>

\* physmem::init_post_paging: NORMAL_REGION and HIGH_REGION.
FrInitPostPaging ==
    /\ ~frPanic
    /\ frPhase = "early"
    /\ UNCHANGED notFrVars
    /\ frZones' = frZones \o
            << PageFrameRegion_new(LOW_REGION_FRAMES, NORMAL_REGION_FRAMES, frMemoryMap),
               PageFrameRegion_new(NORMAL_REGION_FRAMES, HIGH_REGION_FRAMES, frMemoryMap) >>
    /\ frPhase' = "post"
    /\ frHist' = FrHist("init_post_paging", "Ok", {}, 0)
    /\ UNCHANGED <<frMemoryMap, frAllocated, frHeld, frPte, frRegions, frPanic>>

\* physmem::init_reclaim: reclaim on the three zones, in order.
RECURSIVE ReclaimZones(_, _, _)
ReclaimZones(zones, memory_map, z) ==
    IF z > Len(zones) THEN [res |-> "Ok", zones |-> zones]
    ELSE Only({ IF r.res = "panic" THEN [res |-> "panic", zones |-> zones]
                ELSE ReclaimZones([zones EXCEPT ![z] = r.zone], memory_map, z + 1)
                : r \in {PageFrameRegion_reclaim(zones[z], memory_map)} })

FrInitReclaim ==
    /\ ~frPanic
    /\ frPhase = "post"
    /\ UNCHANGED notFrVars
    /\ \E r \in {ReclaimZones(frZones, frMemoryMap, 1)} :
        /\ frZones' = r.zones
        /\ frPanic' = (r.res = "panic")
        /\ frHist' = FrHist("reclaim", r.res, {}, 0)
    /\ frPhase' = "reclaimed"
    /\ UNCHANGED <<frMemoryMap, frAllocated, frHeld, frPte, frRegions>>

\* allocate_frame on one zone, for a caller that keeps the frame unmapped
\* (a page table, a page of the region map).
FrAllocateFrame ==
    /\ ~frPanic
    /\ frPhase \in {"post", "reclaimed"}
    /\ Cardinality(frHeld) < FrMaxHeld
    /\ UNCHANGED notFrVars
    /\ \E z \in 1..Len(frZones) :
       \E a \in {PageFrameRegion_allocate_frame(frZones[z])} :
        /\ frZones' = [frZones EXCEPT ![z] = a.zone]
        /\ frAllocated' = frAllocated \cup {a.frame[i] : i \in 1..Len(a.frame)}
        /\ frHeld' = frHeld \cup {a.frame[i] : i \in 1..Len(a.frame)}
        /\ frHist' = FrHist("allocate_frame", IF a.frame = <<>> THEN "None" ELSE "Ok",
                            {a.frame[i] : i \in 1..Len(a.frame)}, z)
    /\ UNCHANGED <<frMemoryMap, frPhase, frPte, frRegions, frPanic>>

\* deallocate_frame of a frame the caller holds.
FrDeallocateFrame ==
    /\ ~frPanic
    /\ UNCHANGED notFrVars
    /\ \E frame \in frHeld :
       \E d \in {deallocate_frame(frZones, frame)} :
        /\ frZones' = d.zones
        /\ frPanic' = (d.res = "panic")
        /\ frAllocated' = frAllocated \ {frame}
        /\ frHeld' = frHeld \ {frame}
        /\ frHist' = FrHist("deallocate_frame", d.res, {frame}, ZoneOf(frZones, frame))
    /\ UNCHANGED <<frMemoryMap, frPhase, frPte, frRegions>>

\* The frames zones holds fewer free than before.
TakenFrom(before, after) ==
    UNION { {i + before[z].start_frame : i \in before[z].bitmask \ after[z].bitmask}
            : z \in 1..Len(before) }

\* allocate_region for a Heap or KernelStack region on pages of the range
\* that belong to no live region, up to the mapping of its pages.
FrAllocateRegion ==
    /\ ~frPanic
    /\ frPhase \in {"post", "reclaimed"}
    /\ UNCHANGED notFrVars
    /\ \E rtype \in {"Heap", "KernelStack"}, base \in 0..(FrVaPages - 1), limit \in 1..FrVaPages :
        /\ limit > base + (IF rtype = "KernelStack" THEN 1 ELSE 0)
        /\ \A r \in frRegions : r.limit <= base \/ limit <= r.base
        /\ \E m \in {IF rtype = "Heap"
                      THEN map_nonpaged_impl(frZones, frPte, base, limit, base, limit)
                      ELSE map_kernel_stack(frZones, frPte, base, limit)} :
            /\ frZones' = m.zones
            /\ frPte' = m.pte
            /\ frPanic' = (m.res \in {"panic", "hang"})
            /\ frRegions' = IF m.res = "Ok"
                            THEN frRegions \cup {[base |-> base, limit |-> limit, rtype |-> rtype]}
                            ELSE frRegions
            /\ frAllocated' = (frAllocated \cup TakenFrom(frZones, m.zones))
            /\ frHist' = FrHist("map", m.res, FramesMapped(m.pte, base..(limit - 1)), 0)
    /\ UNCHANGED <<frMemoryMap, frPhase, frHeld>>

\* map_physical_memory for a PhysicalMapping region over device frames.
FrMapPhysicalMemory ==
    /\ ~frPanic
    /\ frPhase \in {"post", "reclaimed"}
    /\ UNCHANGED notFrVars
    /\ \E base \in 0..(FrVaPages - 1), physical_frame \in DeviceFrames :
        /\ \A r \in frRegions : r.limit <= base \/ base + 1 <= r.base
        /\ \E m \in {map_physical_memory(frPte, physical_frame, base, base + 1)} :
            /\ frPte' = m.pte
            /\ frPanic' = (m.res = "panic")
            /\ frRegions' = IF m.res = "Ok"
                            THEN frRegions \cup {[base |-> base, limit |-> base + 1,
                                                  rtype |-> "PhysicalMapping"]}
                            ELSE frRegions
            /\ frHist' = FrHist("map_physical", m.res, {physical_frame}, 0)
    /\ UNCHANGED <<frMemoryMap, frPhase, frZones, frAllocated, frHeld>>

\* Drop of a Region: unmap_region.
FrDropRegion ==
    /\ ~frPanic
    /\ UNCHANGED notFrVars
    /\ \E r \in frRegions :
       \E u \in {unmap_region(frZones, frPte, r)} :
        /\ frZones' = u.zones
        /\ frPte' = u.pte
        /\ frPanic' = (u.res = "panic")
        /\ frRegions' = frRegions \ {r}
        /\ frAllocated' = IF r.rtype = "PhysicalMapping" THEN frAllocated
                          ELSE frAllocated \ FramesMapped(frPte, r.base..(r.limit - 1))
        /\ frHist' = FrHist(IF r.rtype = "PhysicalMapping" THEN "drop_physical" ELSE "drop",
                            u.res, FramesMapped(frPte, r.base..(r.limit - 1)), 0)
    /\ UNCHANGED <<frMemoryMap, frPhase, frHeld>>

FrNext ==
    \/ FrEarlyInit
    \/ FrInitPostPaging
    \/ FrInitReclaim
    \/ FrAllocateFrame
    \/ FrDeallocateFrame
    \/ FrAllocateRegion
    \/ FrMapPhysicalMemory
    \/ FrDropRegion

(***************************************************************************)
(* Page table entries: the raw word and its two typed readings             *)
(***************************************************************************)
PteBits == 6
PteWords == 0 .. (2^PteBits - 1)
PRESENT == 1

RawPte(bits) == [type |-> "RawPte", bits |-> bits]
RawPte_unused == RawPte(0)

\* bitflags from_bits_truncate: the word masked with the flags the type knows
RawPageFlags_from_bits_truncate(bits) == ((bits \div PRESENT) % 2) * PRESENT
RawPte_flags(r) == RawPageFlags_from_bits_truncate(r.bits)

RawPte_is_present_any_bit(r) == r.bits # 0

RawPte_is_present(r) == RawPte_flags(r) = PRESENT

InvalidPteError(r) == [res |-> "Err", error |-> r]

RawPresentPte_try_from(rpte) ==
    IF RawPte_is_present(rpte)
    THEN [res |-> "Ok", value |-> [type |-> "RawPresentPte", bits |-> rpte.bits]]
    ELSE InvalidPteError(rpte)

RawNotPresentPte_try_from(rpte) ==
    IF RawPte_is_present(rpte)
    THEN InvalidPteError(rpte)
    ELSE [res |-> "Ok", value |-> [type |-> "RawNotPresentPte", bits |-> rpte.bits]]

RawPte_present(r) == RawPresentPte_try_from(r)
RawPte_not_present(r) == RawNotPresentPte_try_from(r)

RawPte_from_RawPresentPte(rpp) == RawPte(rpp.bits)
RawPte_from_RawNotPresentPte(rnp) == RawPte(rnp.bits)

PteInit ==
    /\ pteRaw = RawPte_unused
    /\ ptePresent = <<>>
    /\ pteNotPresent = <<>>
    /\ pteBack = <<>>

\* an entry is read out of a page table: any word may be there
PteRead ==
    /\ \E bits \in PteWords : pteRaw' = RawPte(bits)
    /\ ptePresent' = <<>>
    /\ pteNotPresent' = <<>>
    /\ pteBack' = <<>>
    /\ UNCHANGED notPteVars

PtePresent ==
    /\ ptePresent = <<>>
    /\ ptePresent' = << RawPte_present(pteRaw) >>
    /\ UNCHANGED <<pteRaw, pteNotPresent, pteBack>>
    /\ UNCHANGED notPteVars

PteNotPresent ==
    /\ pteNotPresent = <<>>
    /\ pteNotPresent' = << RawPte_not_present(pteRaw) >>
    /\ UNCHANGED <<pteRaw, ptePresent, pteBack>>
    /\ UNCHANGED notPteVars

PteFromPresent ==
    /\ pteBack = <<>>
    /\ ptePresent # <<>>
    /\ ptePresent[1].res = "Ok"
    /\ pteBack' = << RawPte_from_RawPresentPte(ptePresent[1].value) >>
    /\ UNCHANGED <<pteRaw, ptePresent, pteNotPresent>>
    /\ UNCHANGED notPteVars

PteFromNotPresent ==
    /\ pteBack = <<>>
    /\ pteNotPresent # <<>>
    /\ pteNotPresent[1].res = "Ok"
    /\ pteBack' = << RawPte_from_RawNotPresentPte(pteNotPresent[1].value) >>
    /\ UNCHANGED <<pteRaw, ptePresent, pteNotPresent>>
    /\ UNCHANGED notPteVars

PteNext ==
    \/ PteRead
    \/ PtePresent
    \/ PteNotPresent
    \/ PteFromPresent
    \/ PteFromNotPresent

(***************************************************************************)
(* Page table entries at full width: a u64 is the set of its set bits      *)
(***************************************************************************)
HdrFrames == 2
WordBits == 0 .. 63
U16Bits == 0 .. 15

BitsOf(n) == {i \in U16Bits : (n \div 2^i) % 2 = 1}
RECURSIVE ValueOf(_)
ValueOf(w) ==
    IF w = {} THEN 0
    ELSE LET i == CHOOSE b \in w : TRUE IN 2^i + ValueOf(w \ {i})
ShiftLeft(w, k) == {i + k : i \in w} \cap WordBits
ShiftRight(w, k) == {i - k : i \in w} \cap WordBits

COUNTER_SHIFT == 52
COUNTER_BITS == 52 .. 62
MAX_COUNTER_VALUE == ValueOf(ShiftRight(COUNTER_BITS, COUNTER_SHIFT) \cap U16Bits) + 1
FRAME_BITS == 12 .. 51
TYPE_SHIFT == 1
REGION_HEADER == 9
NO_EXECUTE == 63
WRITABLE == 1
NotPresentPageType_RegionHeader == 2

Frame_physical_address(frame) == ShiftLeft(BitsOf(frame), 12)
PtePanic == [res |-> "Panic"]

RawPresentPte_from_frame_flags_and_counter(frame, flags, counter) ==
    IF counter < MAX_COUNTER_VALUE
    THEN [res |-> "Ok",
          value |-> Frame_physical_address(frame) \cup flags \cup {0}
                        \cup ShiftLeft(BitsOf(counter), COUNTER_SHIFT)]
    ELSE PtePanic

RawPresentPte_flags(w) == w \cap ((1 .. 11) \cup {NO_EXECUTE})
RawPresentPte_frame(w) == ValueOf(ShiftRight(w \cap FRAME_BITS, 12))

RawPresentPte_counter_low_bits(w) == ValueOf((w \cap (0 .. 10)) \cap U16Bits)

RawPresentPte_counter(w) ==
    ValueOf(ShiftRight(w \cap COUNTER_BITS, COUNTER_SHIFT) \cap U16Bits)

RawNotPresentPte_from_type_flags_frame_and_counter(page_type, flags, frame, counter) ==
    IF counter < MAX_COUNTER_VALUE
    THEN [res |-> "Ok",
          value |-> Frame_physical_address(frame) \cup flags
                        \cup ShiftLeft(BitsOf(page_type), TYPE_SHIFT)
                        \cup ShiftLeft(BitsOf(counter), COUNTER_SHIFT)]
    ELSE PtePanic

RawNotPresentPte_from_type_and_counter(page_type, counter) ==
    RawNotPresentPte_from_type_flags_frame_and_counter(page_type, {}, 0, counter)

RawNotPresentPte_frame(w) == ValueOf(ShiftRight(w \cap FRAME_BITS, 12))

RawNotPresentPte_counter(w) ==
    ValueOf(ShiftRight(w \cap COUNTER_BITS, COUNTER_SHIFT) \cap U16Bits)

\* the typed region-header entries: the size in chunks is the counter
PresentRegionHeaderPte_new(frame, flags, size_in_chunks) ==
    RawPresentPte_from_frame_flags_and_counter(frame, flags \cup {REGION_HEADER}, size_in_chunks)
PresentRegionHeaderPte_size_in_chunks(w) == RawPresentPte_counter(w)
NotPresentRegionHeaderPte_new(size_in_chunks) ==
    RawNotPresentPte_from_type_and_counter(NotPresentPageType_RegionHeader, size_in_chunks)
NotPresentRegionHeaderPte_size_in_chunks(w) == RawNotPresentPte_counter(w)

HdrSizes == 0 .. MAX_COUNTER_VALUE
HdrFlagSets == {{}, {WRITABLE, NO_EXECUTE}}

HdrInit ==
    /\ hdrSize = 0
    /\ hdrPresent = <<>>
    /\ hdrNotPresent = <<>>

\* the next region size to try: sizes are entered bit by bit, so that every
\* size up to MAX_COUNTER_VALUE is a few steps away
HdrNextSize ==
    /\ \E n \in {2 * hdrSize, 2 * hdrSize + 1} \cap HdrSizes : hdrSize' = n
    /\ hdrPresent' = <<>>
    /\ hdrNotPresent' = <<>>
    /\ UNCHANGED notHdrVars

\* a mapped region's header is written
HdrNewPresent ==
    /\ \E frame \in 0 .. (HdrFrames - 1), flags \in HdrFlagSets :
          hdrPresent' = << PresentRegionHeaderPte_new(frame, flags, hdrSize) >>
    /\ hdrNotPresent' = <<>>
    /\ UNCHANGED hdrSize
    /\ UNCHANGED notHdrVars

\* a free region's header is written
HdrNewNotPresent ==
    /\ hdrNotPresent' = << NotPresentRegionHeaderPte_new(hdrSize) >>
    /\ hdrPresent' = <<>>
    /\ UNCHANGED hdrSize
    /\ UNCHANGED notHdrVars

\* the header of a region being unmapped: not present, frame and counter kept
HdrSetNotPresent ==
    /\ hdrPresent # <<>>
    /\ hdrPresent[1].res = "Ok"
    /\ hdrNotPresent = <<>>
    /\ \E w \in {hdrPresent[1].value} :
          hdrNotPresent' = << RawNotPresentPte_from_type_flags_frame_and_counter(
                                  NotPresentPageType_RegionHeader, {},
                                  RawPresentPte_frame(w), RawPresentPte_counter(w)) >>
    /\ UNCHANGED <<hdrSize, hdrPresent>>
    /\ UNCHANGED notHdrVars

\* the header of a region being mapped: present, counter kept
HdrSetPresent ==
    /\ hdrNotPresent # <<>>
    /\ hdrNotPresent[1].res = "Ok"
    /\ hdrPresent = <<>>
    /\ \E w \in {hdrNotPresent[1].value}, frame \in 0 .. (HdrFrames - 1) :
          hdrPresent' = << RawPresentPte_from_frame_flags_and_counter(
                               frame, {REGION_HEADER, WRITABLE}, RawNotPresentPte_counter(w)) >>
    /\ UNCHANGED <<hdrSize, hdrNotPresent>>
    /\ UNCHANGED notHdrVars

HdrNext ==
    \/ HdrNextSize
    \/ HdrNewPresent
    \/ HdrNewNotPresent
    \/ HdrSetNotPresent
    \/ HdrSetPresent

(***************************************************************************)
(* Boot: init_post_paging, start_aps, the trampoline and kstart_ap         *)
(***************************************************************************)
NumAps == 2
Aps == 1 .. NumAps

NoStack == 0
TrampolineInit == [ready |-> 0, stack |-> NoStack, startup_data |-> 0, code |-> "none"]

BootInit ==
    /\ bootAps = [a \in Aps |-> "Unknown"]
    /\ bspPc = "acpi"
    /\ bspAp = 0
    /\ AP_READY = FALSE
    /\ BSP_READY = FALSE
    /\ trampoline = TrampolineInit
    /\ apPc = [a \in Aps |-> "halted"]
    /\ apRegs = [a \in Aps |-> [stack |-> NoStack, startup_data |-> 0]]
    /\ bootCurrent = [a \in Aps |-> NoTask]
    /\ bootPanic = FALSE

BootHalted == bootPanic \/ schedPanic

\* acpi::init_bsp: the MADT tells which processors wait for a Startup IPI
BspAcpiInit ==
    /\ ~BootHalted
    /\ bspPc = "acpi"
    /\ \E states \in [Aps -> {"WaitingForSipi", "Disabled"}] : bootAps' = states
    /\ bspPc' = "sched_init"
    /\ UNCHANGED <<bspAp, AP_READY, BSP_READY, trampoline, apPc, apRegs, bootCurrent, bootPanic>>
    /\ UNCHANGED notBootVars

\* scheduler::init(0, true, idle_thread_stack) on the BSP
BspSchedulerInit ==
    /\ ~BootHalted
    /\ bspPc = "sched_init"
    /\ SchedulerInit(0)

\* devices::start_aps up to its loop: the trampoline page and the P4 copy
\* are mapped (expect) and written
BspStartAps ==
    /\ ~BootHalted
    /\ bspPc = "sched_init"
    /\ schedCpus[0].pc = "run"
    /\ \E mapOk \in BOOLEAN :
          /\ bootPanic' = ~mapOk
          /\ bspPc' = IF mapOk THEN "loop" ELSE bspPc
          /\ bspAp' = IF mapOk THEN 1 ELSE bspAp
    /\ UNCHANGED <<bootAps, AP_READY, BSP_READY, trampoline, apPc, apRegs, bootCurrent>>
    /\ UNCHANGED notBootVars

\* the head of the loop: the end of the list returns from start_aps, an AP
\* that does not wait for a Startup IPI is passed over, a waiting AP gets
\* its kernel stack and startup data (expect)
BspNextAp ==
    /\ ~BootHalted
    /\ bspPc = "loop"
    /\ IF bspAp > NumAps
       THEN bspPc' = "bsp_ready" /\ UNCHANGED <<bspAp, bootPanic>>
       ELSE IF bootAps[bspAp] # "WaitingForSipi"
       THEN bspAp' = bspAp + 1 /\ UNCHANGED <<bspPc, bootPanic>>
       ELSE \E stackOk \in BOOLEAN :
               /\ bootPanic' = ~stackOk
               /\ bspPc' = IF stackOk THEN "clear_ap_ready" ELSE bspPc
               /\ UNCHANGED bspAp
    /\ UNCHANGED <<bootAps, AP_READY, BSP_READY, trampoline, apPc, apRegs, bootCurrent>>
    /\ UNCHANGED notBootVars

\* AP_READY.store(false)
BspClearApReady ==
    /\ ~BootHalted
    /\ bspPc = "clear_ap_ready"
    /\ AP_READY' = FALSE
    /\ bspPc' = "write_ready"
    /\ UNCHANGED <<bootAps, bspAp, BSP_READY, trampoline, apPc, apRegs, bootCurrent, bootPanic>>
    /\ UNCHANGED notBootVars

\* the four atomic_store calls, one word each, in program order
BspWriteTrampoline ==
    /\ ~BootHalted
    /\ bspPc \in {"write_ready", "write_stack", "write_startup_data", "write_code"}
    /\ trampoline' =
          CASE bspPc = "write_ready" -> [trampoline EXCEPT !.ready = 0]
            [] bspPc = "write_stack" -> [trampoline EXCEPT !.stack = bspAp]
            [] bspPc = "write_startup_data" -> [trampoline EXCEPT !.startup_data = bspAp]
            [] bspPc = "write_code" -> [trampoline EXCEPT !.code = "enter_ap"]
    /\ bspPc' =
          CASE bspPc = "write_ready" -> "write_stack"
            [] bspPc = "write_stack" -> "write_startup_data"
            [] bspPc = "write_startup_data" -> "write_code"
            [] bspPc = "write_code" -> "send_init"
    /\ UNCHANGED <<bootAps, bspAp, AP_READY, BSP_READY, apPc, apRegs, bootCurrent, bootPanic>>
    /\ UNCHANGED notBootVars

\* set_icr(0x4500 | id << 56): the INIT IPI resets the AP
BspSendInit ==
    /\ ~BootHalted
    /\ bspPc = "send_init"
    /\ apPc' = [apPc EXCEPT ![bspAp] = "wait_for_sipi"]
    /\ bspPc' = "send_sipi"
    /\ UNCHANGED <<bootAps, bspAp, AP_READY, BSP_READY, trampoline, apRegs, bootCurrent, bootPanic>>
    /\ UNCHANGED notBootVars

\* set_icr(0x4600 | segment | id << 56): the Startup IPI starts the AP in
\* the trampoline
BspSendSipi ==
    /\ ~BootHalted
    /\ bspPc = "send_sipi"
    /\ apPc' = [apPc EXCEPT ![bspAp] = "trampoline"]
    /\ bspPc' = "wait_trampoline"
    /\ UNCHANGED <<bootAps, bspAp, AP_READY, BSP_READY, trampoline, apRegs, bootCurrent, bootPanic>>
    /\ UNCHANGED notBootVars

\* while atomic_load(ap_ready) == 0 { pause }
BspWaitTrampoline ==
    /\ ~BootHalted
    /\ bspPc = "wait_trampoline"
    /\ trampoline.ready # 0
    /\ bspPc' = "wait_ap"
    /\ UNCHANGED <<bootAps, bspAp, AP_READY, BSP_READY, trampoline, apPc, apRegs, bootCurrent, bootPanic>>
    /\ UNCHANGED notBootVars

BspWaitAp_no_wait ==
    /\ ~BootHalted
    /\ bspPc = "wait_ap"
    /\ bspPc' = "loop"
    /\ bspAp' = bspAp + 1
    /\ UNCHANGED <<bootAps, AP_READY, BSP_READY, trampoline, apPc, apRegs, bootCurrent, bootPanic>>
    /\ UNCHANGED notBootVars

\* while !AP_READY.load() { pause }, then the next AP
BspWaitAp ==
    /\ ~BootHalted
    /\ bspPc = "wait_ap"
    /\ AP_READY
    /\ bspPc' = "loop"
    /\ bspAp' = bspAp + 1
    /\ UNCHANGED <<bootAps, AP_READY, BSP_READY, trampoline, apPc, apRegs, bootCurrent, bootPanic>>
    /\ UNCHANGED notBootVars

\* BSP_READY.store(true), after start_aps has returned
BspSetReady ==
    /\ ~BootHalted
    /\ bspPc = "bsp_ready"
    /\ BSP_READY' = TRUE
    /\ bspPc' = "spawn"
    /\ UNCHANGED <<bootAps, bspAp, AP_READY, trampoline, apPc, apRegs, bootCurrent, bootPanic>>
    /\ UNCHANGED notBootVars

\* The task that runs on CPU 0 is not its idle task.
BspRunsTask ==
    /\ schedCpus[0].current # NoTask
    /\ schedTasks[schedCpus[0].current].priority # PriorityIdle

\* scheduler::spawn on CPU 0: the init task spawned by init_post_paging
\* (the only task but the idle task), or a task spawned by a running task
BootSpawn ==
    /\ ~BootHalted
    /\ bspPc = "spawn"
    /\ Len(schedTasks) = 1 \/ BspRunsTask
    /\ Spawn(0)

\* reschedule() on CPU 0: the call in make_runnable, or a call by a running task
BootReschedule ==
    /\ ~BootHalted
    /\ bspPc = "spawn"
    /\ schedCpus[0].pc = "reschedule" \/ BspRunsTask
    /\ Reschedule(0)

\* the task switch on CPU 0, once reschedule has found a task
BootSwitch ==
    /\ ~BootHalted
    /\ bspPc = "spawn"
    /\ \/ PrepareTaskSwitch(0)
       \/ CompleteTaskSwitch(0)
       \/ ReturnFromSwitch(0)

\* the trampoline takes the stack, the startup data and the entry function
\* from its page
ApTrampolineLoad(a) ==
    /\ ~BootHalted
    /\ apPc[a] = "trampoline"
    /\ apRegs' = [apRegs EXCEPT ![a] = [stack |-> trampoline.stack,
                                        startup_data |-> trampoline.startup_data]]
    /\ apPc' = [apPc EXCEPT ![a] = "trampoline_loaded"]
    /\ UNCHANGED <<bootAps, bspPc, bspAp, AP_READY, BSP_READY, trampoline, bootCurrent, bootPanic>>
    /\ UNCHANGED notBootVars

\* the trampoline writes ready = 1 and jumps to the entry function
ApTrampolineReady(a) ==
    /\ ~BootHalted
    /\ apPc[a] = "trampoline_loaded"
    /\ trampoline' = [trampoline EXCEPT !.ready = 1]
    /\ apPc' = [apPc EXCEPT ![a] = "enter_ap"]
    /\ UNCHANGED <<bootAps, bspPc, bspAp, AP_READY, BSP_READY, apRegs, bootCurrent, bootPanic>>
    /\ UNCHANGED notBootVars

\* enter_ap and kstart_ap up to scheduler::init: paging::init_ap, the fault
\* stack (expect), gdt, idt, CPU_ID, devices::init_ap
ApKstart(a) ==
    /\ ~BootHalted
    /\ apPc[a] = "enter_ap"
    /\ \E stackOk \in BOOLEAN :
          /\ bootPanic' = ~stackOk
          /\ apPc' = IF stackOk THEN [apPc EXCEPT ![a] = "sched_init"] ELSE apPc
    /\ UNCHANGED <<bootAps, bspPc, bspAp, AP_READY, BSP_READY, trampoline, apRegs, bootCurrent>>
    /\ UNCHANGED notBootVars

\* scheduler::init(cpu_id, false, idle_thread_stack): Task::new_idle (expect),
\* make_current and set_initial_task install the idle task as current
ApSchedulerInit(a) ==
    /\ ~BootHalted
    /\ apPc[a] = "sched_init"
    /\ \E taskOk \in BOOLEAN :
          /\ bootPanic' = (~taskOk \/ bootCurrent[a] # NoTask)
          /\ IF taskOk /\ bootCurrent[a] = NoTask
             THEN /\ bootCurrent' = [bootCurrent EXCEPT ![a] = apRegs[a].startup_data]
                  /\ apPc' = [apPc EXCEPT ![a] = "ap_ready"]
             ELSE UNCHANGED <<bootCurrent, apPc>>
    /\ UNCHANGED <<bootAps, bspPc, bspAp, AP_READY, BSP_READY, trampoline, apRegs>>
    /\ UNCHANGED notBootVars

ApSetReady_no_store(a) ==
    /\ ~BootHalted
    /\ apPc[a] = "ap_ready"
    /\ apPc' = [apPc EXCEPT ![a] = "wait_bsp"]
    /\ UNCHANGED <<bootAps, bspPc, bspAp, AP_READY, BSP_READY, trampoline, apRegs, bootCurrent, bootPanic>>
    /\ UNCHANGED notBootVars

\* AP_READY.store(true)
ApSetReady(a) ==
    /\ ~BootHalted
    /\ apPc[a] = "ap_ready"
    /\ AP_READY' = TRUE
    /\ apPc' = [apPc EXCEPT ![a] = "wait_bsp"]
    /\ UNCHANGED <<bootAps, bspPc, bspAp, BSP_READY, trampoline, apRegs, bootCurrent, bootPanic>>
    /\ UNCHANGED notBootVars

ApWaitBsp_no_wait(a) ==
    /\ ~BootHalted
    /\ apPc[a] = "wait_bsp"
    /\ apPc' = [apPc EXCEPT ![a] = "idle"]
    /\ UNCHANGED <<bootAps, bspPc, bspAp, AP_READY, BSP_READY, trampoline, apRegs, bootCurrent, bootPanic>>
    /\ UNCHANGED notBootVars

\* while !BSP_READY.load() { pause }, then "going idle" and idle_loop
ApWaitBsp(a) ==
    /\ ~BootHalted
    /\ apPc[a] = "wait_bsp"
    /\ BSP_READY
    /\ apPc' = [apPc EXCEPT ![a] = "idle"]
    /\ UNCHANGED <<bootAps, bspPc, bspAp, AP_READY, BSP_READY, trampoline, apRegs, bootCurrent, bootPanic>>
    /\ UNCHANGED notBootVars

BspStep ==
    \/ BspAcpiInit
    \/ BspSchedulerInit
    \/ BspStartAps
    \/ BspNextAp
    \/ BspClearApReady
    \/ BspWriteTrampoline
    \/ BspSendInit
    \/ BspSendSipi
    \/ BspWaitTrampoline
    \/ BspWaitAp
    \/ BspSetReady

ApStep(a) ==
    \/ ApTrampolineLoad(a)
    \/ ApTrampolineReady(a)
    \/ ApKstart(a)
    \/ ApSchedulerInit(a)
    \/ ApSetReady(a)
    \/ ApWaitBsp(a)

BootNext ==
    \/ BspAcpiInit
    \/ BspSchedulerInit
    \/ BspStartAps
    \/ BspNextAp
    \/ BspClearApReady
    \/ BspWriteTrampoline
    \/ BspSendInit
    \/ BspSendSipi
    \/ BspWaitTrampoline
    \/ BspWaitAp
    \/ BspSetReady
    \/ BootSpawn
    \/ BootReschedule
    \/ BootSwitch
    \/ \E a \in Aps :
          \/ ApTrampolineLoad(a)
          \/ ApTrampolineReady(a)
          \/ ApKstart(a)
          \/ ApSchedulerInit(a)
          \/ ApSetReady(a)
          \/ ApWaitBsp(a)

(***************************************************************************)
(* Not-present entry types (src/paging/page_entry.rs)                      *)
(***************************************************************************)
NotPresentPageType_Unused == 0
NotPresentPageType_GuardPage == 1
NotPresentPageTypes ==
    {NotPresentPageType_Unused, NotPresentPageType_GuardPage, NotPresentPageType_RegionHeader}

\* TYPE_BITS = 0x1fe
TYPE_BITS == 1 .. 8

\* RawNotPresentPte::from_type
RawNotPresentPte_from_type(page_type) ==
    RawNotPresentPte_from_type_flags_frame_and_counter(page_type, {}, 0, 0)

\* RawNotPresentPte::page_type: ((self.0 >> TYPE_SHIFT) & TYPE_BITS) as u8,
\* then from_u8(..).expect(..)
RawNotPresentPte_page_type(w) ==
    Only({ IF v \in NotPresentPageTypes THEN [res |-> "Ok", value |-> v] ELSE PtePanic
           : v \in {ValueOf((ShiftRight(w, TYPE_SHIFT) \cap TYPE_BITS) \cap (0 .. 7))} })

\* From<KernelStackGuardPagePte> for RawNotPresentPte
KernelStackGuardPagePte_into == RawNotPresentPte_from_type(NotPresentPageType_GuardPage)

\* TryFrom<RawNotPresentPte> for KernelStackGuardPagePte
KernelStackGuardPagePte_try_from(w) ==
    Only({ IF t.res # "Ok" THEN "Panic"
           ELSE IF t.value = NotPresentPageType_GuardPage THEN "Ok"
           ELSE "InvalidPteError"
           : t \in {RawNotPresentPte_page_type(w)} })

NtCounters == 0 .. MAX_COUNTER_VALUE

NtInit ==
    /\ ntCounter = 0
    /\ ntRaw = <<>>
    /\ ntDecoded = <<>>
    /\ ntGuard = <<>>

\* The next counter to try, entered bit by bit.
NtNextCounter ==
    /\ \E n \in {2 * ntCounter, 2 * ntCounter + 1} \cap NtCounters : ntCounter' = n
    /\ ntRaw' = <<>>
    /\ ntDecoded' = <<>>
    /\ ntGuard' = <<>>
    /\ UNCHANGED notNtVars

\* RawNotPresentPte::from_type_and_counter(page_type, counter)
NtFromTypeAndCounter ==
    /\ \E page_type \in NotPresentPageTypes :
          ntRaw' = << [page_type |-> page_type,
                       entry |-> RawNotPresentPte_from_type_and_counter(page_type, ntCounter)] >>
    /\ ntDecoded' = <<>>
    /\ ntGuard' = <<>>
    /\ UNCHANGED ntCounter
    /\ UNCHANGED notNtVars

\* KernelStackGuardPagePte::new().into()
NtGuardInto ==
    /\ ntRaw' = << [page_type |-> NotPresentPageType_GuardPage,
                    entry |-> KernelStackGuardPagePte_into] >>
    /\ ntDecoded' = <<>>
    /\ ntGuard' = <<>>
    /\ UNCHANGED ntCounter
    /\ UNCHANGED notNtVars

\* entry.page_type()
NtPageType ==
    /\ ntRaw # <<>>
    /\ ntRaw[1].entry.res = "Ok"
    /\ ntDecoded = <<>>
    /\ ntDecoded' = << RawNotPresentPte_page_type(ntRaw[1].entry.value) >>
    /\ UNCHANGED <<ntCounter, ntRaw, ntGuard>>
    /\ UNCHANGED notNtVars

\* KernelStackGuardPagePte::try_from(entry)
NtGuardTryFrom ==
    /\ ntRaw # <<>>
    /\ ntRaw[1].entry.res = "Ok"
    /\ ntGuard = <<>>
    /\ ntGuard' = << KernelStackGuardPagePte_try_from(ntRaw[1].entry.value) >>
    /\ UNCHANGED <<ntCounter, ntRaw, ntDecoded>>
    /\ UNCHANGED notNtVars

NtNext ==
    \/ NtNextCounter
    \/ NtFromTypeAndCounter
    \/ NtGuardInto
    \/ NtPageType
    \/ NtGuardTryFrom

(***************************************************************************)
(* Context switch (src/scheduler/arch_context.rs: do_switch)               *)
(*                                                                         *)
(* A register value is the pair <<t, e>>: it belongs to task t in its       *)
(* e-th period of execution (0: the context built for a task that has not  *)
(* run yet).  <<0, 0>> is the zero of ArchContext::new.                     *)
(***************************************************************************)
\* Number of CPUs that switch tasks, and the tasks spawned on them.
SwNumCpus == 2
SwMaxSpawned == 2
SwCpuIds == 0..(SwNumCpus - 1)

\* The fields of ArchContext in the order do_switch stores and loads them.
ArchRegs == <<"cr3", "rflags", "rbx", "r12", "r13", "r14", "r15", "rsp", "rbp">>
ArchRegNames == {ArchRegs[i] : i \in 1..Len(ArchRegs)}

\* ArchContext::new
ArchContext_new == [r \in ArchRegNames |-> <<0, 0>>]

\* The registers of a CPU that executes task t in its period e.
RegsOf(t, e) == [r \in ArchRegNames |-> <<t, e>>]

SwNewCpu(t) == [current |-> t, old |-> NoTask, next_task |-> NoTask, pc |-> "run",
                step |-> 1, regs |-> RegsOf(t, 1)]

\* The state after scheduler::init has run on every CPU: each CPU executes
\* its idle task, whose ArchContext has never been stored to.
SwInit ==
    /\ swTasks = [t \in 1..SwNumCpus |->
                    [state |-> "Running", priority |-> PriorityIdle, cpu_id |-> t - 1,
                     entered |-> TRUE, period |-> 1, saved_by |-> NoCpu,
                     ctx |-> ArchContext_new]]
    /\ swReady = [p \in 0..(PRIORITIES_COUNT - 1) |-> <<>>]
    /\ swCpus = [c \in SwCpuIds |-> SwNewCpu(c + 1)]
    /\ swPanic = FALSE

SwPanics ==
    /\ swPanic' = TRUE
    /\ UNCHANGED <<swTasks, swReady, swCpus>>

\* scheduler::spawn up to the call of reschedule() in make_runnable:
\* Task::spawn builds the ArchContext of the new task (stack, startup
\* frame), make_runnable puts the task on the ready list of its priority.
SwSpawn(c) ==
    /\ ~swPanic
    /\ swCpus[c].pc = "run"
    /\ Len(swTasks) < SwNumCpus + SwMaxSpawned
    /\ UNCHANGED notSwVars
    /\ \E tasks \in {Append(swTasks,
                        [state |-> "Ready", priority |-> PriorityNormal, cpu_id |-> NoCpu,
                         entered |-> FALSE, period |-> 0, saved_by |-> NoCpu,
                         ctx |-> RegsOf(Len(swTasks) + 1, 0)])} :
       \E a \in {add_to_ready_list(swReady, tasks, Len(tasks))} :
          IF a.res = "panic"
          THEN SwPanics
          ELSE /\ swTasks' = tasks
               /\ swReady' = a.lists
               /\ swCpus' = [swCpus EXCEPT ![c].pc = "reschedule"]
               /\ UNCHANGED swPanic

\* CurrentTask::reschedule: find_next_task, then prepare_task_switch.
SwReschedule(c) ==
    /\ ~swPanic
    /\ swCpus[c].pc \in {"run", "reschedule"}
    /\ UNCHANGED notSwVars
    /\ \E f \in {find_next_task(swReady, swTasks,
                                swTasks[swCpus[c].current].priority, c)} :
        IF f.task = NoTask
        THEN /\ swCpus' = [swCpus EXCEPT ![c].pc = "run"]
             /\ UNCHANGED <<swTasks, swReady, swPanic>>
        ELSE IF swCpus[c].old # NoTask \/ swTasks[f.task].state # "Ready"
        THEN SwPanics
        ELSE /\ swReady' = f.lists
             /\ swTasks' = [swTasks EXCEPT ![f.task].state = "Running"]
             /\ swCpus' = [swCpus EXCEPT ![c].old = swCpus[c].current,
                                          ![c].current = f.task,
                                          ![c].pc = "switch",
                                          ![c].step = 1]
             /\ UNCHANGED swPanic

\* One store/load pair of do_switch: the register is stored into the
\* context of the outgoing task (rdi) and loaded from the context of the
\* incoming task (rsi).
SwStoreLoad(c) ==
    /\ ~swPanic
    /\ swCpus[c].pc = "switch"
    /\ swCpus[c].step <= Len(ArchRegs)
    /\ UNCHANGED notSwVars
    /\ \E r \in {ArchRegs[swCpus[c].step]} :
        /\ swTasks' = [swTasks EXCEPT ![swCpus[c].old].ctx[r] = swCpus[c].regs[r],
                                       ![swCpus[c].old].saved_by = c]
        /\ swCpus' = [swCpus EXCEPT ![c].regs[r] = swTasks[swCpus[c].current].ctx[r],
                                     ![c].step = @ + 1]
    /\ UNCHANGED <<swReady, swPanic>>

\* A complete_task_switch that do_switch calls before it has stored the
\* stack pointer of the outgoing task.
SwCompleteTaskSwitch_before_rsp(c) ==
    /\ ~swPanic
    /\ swCpus[c].pc = "switch"
    /\ swCpus[c].step = Len(ArchRegs) - 1
    /\ UNCHANGED notSwVars
    /\ \E tasks \in {[swTasks EXCEPT ![swCpus[c].old].state = "Ready"]} :
       \E a \in {add_to_ready_list(swReady, tasks, swCpus[c].old)} :
            /\ swTasks' = tasks
            /\ swReady' = a.lists
            /\ swCpus' = [swCpus EXCEPT ![c].old = NoTask, ![c].pc = "return"]
            /\ UNCHANGED swPanic

\* `call complete_task_switch` at the end of do_switch:
\* CurrentTask::complete_task_switch and TaskControl::make_ready.
SwCompleteTaskSwitch(c) ==
    /\ ~swPanic
    /\ swCpus[c].pc = "switch"
    /\ swCpus[c].step = Len(ArchRegs) + 1
    /\ UNCHANGED notSwVars
    /\ IF swCpus[c].old = NoTask \/ swTasks[swCpus[c].old].state # "Running"
       THEN SwPanics
       ELSE \E tasks \in {[swTasks EXCEPT ![swCpus[c].old].state = "Ready"]} :
            \E a \in {add_to_ready_list(swReady, tasks, swCpus[c].old)} :
                IF a.res = "panic"
                THEN SwPanics
                ELSE /\ swTasks' = tasks
                     /\ swReady' = a.lists
                     /\ swCpus' = [swCpus EXCEPT ![c].old = NoTask, ![c].pc = "return"]
                     /\ UNCHANGED swPanic

\* The ret of do_switch: a task that runs for the first time goes on in
\* launch_trampoline, a task that ran before in the todo!() behind
\* switch_to.
SwReturn(c) ==
    /\ ~swPanic
    /\ swCpus[c].pc = "return"
    /\ UNCHANGED notSwVars
    /\ IF swTasks[swCpus[c].current].entered
       THEN SwPanics
       ELSE /\ swTasks' = [swTasks EXCEPT ![swCpus[c].current].entered = TRUE,
                                          ![swCpus[c].current].period = @ + 1]
            /\ swCpus' = [swCpus EXCEPT ![c].pc = "run",
                                         ![c].regs = RegsOf(swCpus[c].current,
                                                     swTasks[swCpus[c].current].period + 1)]
            /\ UNCHANGED <<swReady, swPanic>>

SwNext ==
    \E c \in SwCpuIds :
        \/ SwSpawn(c)
        \/ SwReschedule(c)
        \/ SwStoreLoad(c)
        \/ SwCompleteTaskSwitch(c)
        \/ SwReturn(c)

(***************************************************************************)
(* TLB flush tokens (src/paging/mapper.rs: MapperFlush, MapperFlushAll)    *)
(***************************************************************************)
\* Largest number of MapperFlush tokens made.
MfMaxTokens == 3
\* Addresses the tokens are made for.
MfAddrs == {PAGE_SIZE, 2 * PAGE_SIZE}

\* MapperFlush::new
MapperFlush_new(addr) == [addr |-> addr, status |-> "live"]

\* MapperFlush::flush: the token goes into a ManuallyDrop, active.flush(addr).
MapperFlush_flush(token) ==
    [token |-> [token EXCEPT !.status = "flushed"], flush |-> {token.addr},
     flush_all |-> 0, panic |-> FALSE]

\* MapperFlush::ignore
MapperFlush_ignore(token) ==
    [token |-> [token EXCEPT !.status = "ignored"], flush |-> {}, flush_all |-> 0,
     panic |-> FALSE]

\* Drop for MapperFlush
MapperFlush_drop(token) ==
    [token |-> [token EXCEPT !.status = "dropped"], flush |-> {}, flush_all |-> 0,
     panic |-> TRUE]

\* MapperFlushAll::new.  taken counts the tokens consumed (not in the
\* source: the struct has the flag only).
MapperFlushAll_new == [flag |-> FALSE, taken |-> 0]

\* A consume that leaves the flag as it is.
MapperFlushAll_consume_no_mark(all, token) ==
    [all |-> [all EXCEPT !.taken = @ + 1],
     token |-> [token EXCEPT !.status = "consumed"]]

\* MapperFlushAll::consume
MapperFlushAll_consume(all, token) ==
    [all |-> [all EXCEPT !.flag = TRUE, !.taken = @ + 1],
     token |-> [token EXCEPT !.status = "consumed"]]

\* Drop for MapperFlushAll
MapperFlushAll_drop(all) ==
    [flush_all |-> 0, panic |-> all.flag]

\* MapperFlushAll::flush: with the flag set self goes into a ManuallyDrop
\* and flush_all runs; otherwise self is dropped at the end of the call.
MapperFlushAll_flush(all) ==
    IF all.flag THEN [flush_all |-> 1, panic |-> FALSE]
    ELSE MapperFlushAll_drop(all)

\* MapperFlushAll::ignore
MapperFlushAll_ignore(all) == [flush_all |-> 0, panic |-> FALSE]

MfHistInit == [op |-> "init", taken |-> 0, flush |-> {}, flush_all |-> 0]

MfInit ==
    /\ mfTokens = <<>>
    /\ mfAll = <<>>
    /\ mfHist = MfHistInit
    /\ mfPanic = FALSE

\* A mapping call returns a token (map_to, unmap).
MfNewToken ==
    /\ ~mfPanic
    /\ Len(mfTokens) < MfMaxTokens
    /\ UNCHANGED notMfVars
    /\ \E addr \in MfAddrs : mfTokens' = Append(mfTokens, MapperFlush_new(addr))
    /\ mfHist' = [MfHistInit EXCEPT !.op = "new"]
    /\ UNCHANGED <<mfAll, mfPanic>>

\* token.flush(active)
MfFlush ==
    /\ ~mfPanic
    /\ UNCHANGED notMfVars
    /\ \E i \in {j \in 1..Len(mfTokens) : mfTokens[j].status = "live"} :
       \E d \in {MapperFlush_flush(mfTokens[i])} :
        /\ mfTokens' = [mfTokens EXCEPT ![i] = d.token]
        /\ mfPanic' = d.panic
        /\ mfHist' = [MfHistInit EXCEPT !.op = "flush", !.flush = d.flush,
                                        !.flush_all = d.flush_all]
    /\ UNCHANGED mfAll

\* unsafe { token.ignore() }
MfIgnore ==
    /\ ~mfPanic
    /\ UNCHANGED notMfVars
    /\ \E i \in {j \in 1..Len(mfTokens) : mfTokens[j].status = "live"} :
       \E d \in {MapperFlush_ignore(mfTokens[i])} :
        /\ mfTokens' = [mfTokens EXCEPT ![i] = d.token]
        /\ mfPanic' = d.panic
        /\ mfHist' = [MfHistInit EXCEPT !.op = "ignore", !.flush = d.flush,
                                        !.flush_all = d.flush_all]
    /\ UNCHANGED mfAll

\* A live token goes out of scope.
MfDrop ==
    /\ ~mfPanic
    /\ UNCHANGED notMfVars
    /\ \E i \in {j \in 1..Len(mfTokens) : mfTokens[j].status = "live"} :
       \E d \in {MapperFlush_drop(mfTokens[i])} :
        /\ mfTokens' = [mfTokens EXCEPT ![i] = d.token]
        /\ mfPanic' = d.panic
        /\ mfHist' = [MfHistInit EXCEPT !.op = "drop", !.flush = d.flush,
                                        !.flush_all = d.flush_all]
    /\ UNCHANGED mfAll

\* MapperFlushAll::new at the start of a mapping loop.
MfAllNew ==
    /\ ~mfPanic
    /\ mfAll = <<>>
    /\ UNCHANGED notMfVars
    /\ mfAll' = << MapperFlushAll_new >>
    /\ mfHist' = [MfHistInit EXCEPT !.op = "all_new"]
    /\ UNCHANGED <<mfTokens, mfPanic>>

\* flusher.consume(token)
MfAllConsume ==
    /\ ~mfPanic
    /\ mfAll # <<>>
    /\ UNCHANGED notMfVars
    /\ \E i \in {j \in 1..Len(mfTokens) : mfTokens[j].status = "live"} :
       \E d \in {MapperFlushAll_consume(mfAll[1], mfTokens[i])} :
        /\ mfTokens' = [mfTokens EXCEPT ![i] = d.token]
        /\ mfAll' = << d.all >>
    /\ mfHist' = [MfHistInit EXCEPT !.op = "consume", !.taken = mfAll[1].taken]
    /\ UNCHANGED mfPanic

\* flusher.flush(active)
MfAllFlush ==
    /\ ~mfPanic
    /\ mfAll # <<>>
    /\ UNCHANGED notMfVars
    /\ \E d \in {MapperFlushAll_flush(mfAll[1])} :
        /\ mfPanic' = d.panic
        /\ mfHist' = [MfHistInit EXCEPT !.op = "all_flush", !.taken = mfAll[1].taken,
                                        !.flush_all = d.flush_all]
    /\ mfAll' = <<>>
    /\ UNCHANGED mfTokens

\* unsafe { flusher.ignore() }
MfAllIgnore ==
    /\ ~mfPanic
    /\ mfAll # <<>>
    /\ UNCHANGED notMfVars
    /\ \E d \in {MapperFlushAll_ignore(mfAll[1])} :
        /\ mfPanic' = d.panic
        /\ mfHist' = [MfHistInit EXCEPT !.op = "all_ignore", !.taken = mfAll[1].taken,
                                        !.flush_all = d.flush_all]
    /\ mfAll' = <<>>
    /\ UNCHANGED mfTokens

\* The MapperFlushAll goes out of scope.
MfAllDrop ==
    /\ ~mfPanic
    /\ mfAll # <<>>
    /\ UNCHANGED notMfVars
    /\ \E d \in {MapperFlushAll_drop(mfAll[1])} :
        /\ mfPanic' = d.panic
        /\ mfHist' = [MfHistInit EXCEPT !.op = "all_drop", !.taken = mfAll[1].taken,
                                        !.flush_all = d.flush_all]
    /\ mfAll' = <<>>
    /\ UNCHANGED mfTokens

MfNext ==
    \/ MfNewToken
    \/ MfFlush
    \/ MfIgnore
    \/ MfDrop
    \/ MfAllNew
    \/ MfAllConsume
    \/ MfAllFlush
    \/ MfAllIgnore
    \/ MfAllDrop

(***************************************************************************)
(* Lock acquisition (allocator/mod.rs, simple_allocator.rs,                *)
(* paging/heap_region.rs, paging/mod.rs, physmem/frame_database.rs)        *)
(***************************************************************************)
\* CPUs that run heap and region calls side by side.
LkNumCpus == 2
LkCpus == 1..LkNumCpus

\* ALLOCATOR_IMPL and head_region (the heap), REGION_MANAGER, PAGE_LOCK and
\* the lock of a frame zone.
LkLocks == <<"ALLOCATOR_IMPL", "head_region", "REGION_MANAGER", "PAGE_LOCK", "ZONE">>

Lock(l) == [op |-> "lock", lock |-> l, fail |-> <<>>]
Unlock(l) == [op |-> "unlock", lock |-> l, fail |-> <<>>]

\* A frame is asked of a zone: InitMutex::allocate_frame is
\* try_lock().and_then(..).  ok: what follows Some(frame), with the guard
\* dropped first; fail: what follows None.
LkAllocateFrame(ok, fail) ==
    << [op |-> "try_lock", lock |-> "ZONE", fail |-> fail], Unlock("ZONE") >> \o ok

\* A frame is given back: InitMutex::deallocate_frame is lock().
LkDeallocateFrame == << Lock("ZONE"), Unlock("ZONE") >>

\* RegionManager::unmap_nonpaged
LkUnmapNonpaged(free_pages) ==
    << Lock("PAGE_LOCK") >> \o (IF free_pages THEN LkDeallocateFrame ELSE <<>>)
        \o << Unlock("PAGE_LOCK") >>

\* RegionManager::map_nonpaged with map_nonpaged_impl: the page table is
\* locked, a frame is asked for, and a failure runs unmap_nonpaged before
\* the guard of map_nonpaged goes.
LkMapNonpaged(ok, err) ==
    << Lock("PAGE_LOCK") >>
        \o LkAllocateFrame(<< Unlock("PAGE_LOCK") >> \o ok,
                           LkUnmapNonpaged(TRUE) \o << Unlock("PAGE_LOCK") >> \o err)

\* RegionManager::map_physical_memory: no frame is allocated.
LkMapPhysicalMemory(ok) == << Lock("PAGE_LOCK"), Unlock("PAGE_LOCK") >> \o ok

\* heap_region::allocate_region / map_physical_memory down to
\* allocate_first_fit: the region manager is locked, the table frame is
\* asked for, the mapper runs, the table frame is given back (unused, or in
\* the Err arm).
LkAllocateRegionCalls(region_type, rest) ==
    << Lock("REGION_MANAGER") >>
        \o LkAllocateFrame(
              IF region_type = "PhysicalMapping"
              THEN LkMapPhysicalMemory(LkDeallocateFrame \o << Unlock("REGION_MANAGER") >> \o rest)
              ELSE LkMapNonpaged(LkDeallocateFrame \o << Unlock("REGION_MANAGER") >> \o rest,
                                 LkDeallocateFrame \o << Unlock("REGION_MANAGER") >> \o rest),
              << Unlock("REGION_MANAGER") >> \o rest)

\* Drop for Region: deallocate_region under the region manager's lock,
\* unmap_region, and the frame of an emptied map page given back.
LkRegionDropCalls(region_type) ==
    << Lock("REGION_MANAGER") >> \o LkUnmapNonpaged(region_type # "PhysicalMapping")
        \o LkDeallocateFrame \o << Unlock("REGION_MANAGER") >>

\* Allocator::alloc: lock_allocator_impl, head_region.lock, and
\* expand_and_allocate when no region serves the layout.
LkHeapAllocCalls(grow) ==
    << Lock("ALLOCATOR_IMPL"), Lock("head_region") >>
        \o (IF grow
            THEN LkAllocateRegionCalls("Heap", << Unlock("head_region"), Unlock("ALLOCATOR_IMPL") >>)
            ELSE << Unlock("head_region"), Unlock("ALLOCATOR_IMPL") >>)

\* Allocator::dealloc.  The emptied region is never dropped (can_free is
\* asked of the wrapper, simple_allocator.rs:325), so no other lock follows.
LkHeapDeallocCalls ==
    << Lock("ALLOCATOR_IMPL"), Lock("head_region"),
       Unlock("head_region"), Unlock("ALLOCATOR_IMPL") >>

LkInit ==
    /\ lkCall = [c \in LkCpus |-> "none"]
    /\ lkProg = [c \in LkCpus |-> <<>>]
    /\ lkHeld = [c \in LkCpus |-> <<>>]
    /\ lkSpin = [c \in LkCpus |-> FALSE]

LkHolds(c, l) == \E k \in 1..Len(lkHeld[c]) : lkHeld[c][k] = l

LkFree(l) == \A c \in LkCpus : ~LkHolds(c, l)

\* A CPU between operations calls Allocator::alloc.
LkHeapAlloc(c) ==
    \E grow \in BOOLEAN :
        /\ lkCall[c] = "none"
        /\ lkCall' = [lkCall EXCEPT ![c] = "alloc"]
        /\ lkProg[c] = <<>>
        /\ UNCHANGED notLkVars
        /\ lkProg' = [lkProg EXCEPT ![c] = LkHeapAllocCalls(grow)]
        /\ UNCHANGED <<lkHeld, lkSpin>>

\* Allocator::dealloc
LkHeapDealloc(c) ==
    /\ lkCall[c] = "none"
    /\ lkCall' = [lkCall EXCEPT ![c] = "dealloc"]
    /\ lkProg[c] = <<>>
    /\ UNCHANGED notLkVars
    /\ lkProg' = [lkProg EXCEPT ![c] = LkHeapDeallocCalls]
    /\ UNCHANGED <<lkHeld, lkSpin>>

\* allocate_region, allocate_kernel_stack or map_physical_memory
LkAllocateRegion(c) ==
    \E region_type \in {"Heap", "KernelStack", "PhysicalMapping"} :
        /\ lkCall[c] = "none"
        /\ lkCall' = [lkCall EXCEPT ![c] = "allocate_region"]
        /\ lkProg[c] = <<>>
        /\ UNCHANGED notLkVars
        /\ lkProg' = [lkProg EXCEPT ![c] = LkAllocateRegionCalls(region_type, <<>>)]
        /\ UNCHANGED <<lkHeld, lkSpin>>

\* A Region goes out of scope.
LkRegionDrop(c) ==
    \E region_type \in {"Heap", "KernelStack", "PhysicalMapping"} :
        /\ lkCall[c] = "none"
        /\ lkCall' = [lkCall EXCEPT ![c] = "drop"]
        /\ lkProg[c] = <<>>
        /\ UNCHANGED notLkVars
        /\ lkProg' = [lkProg EXCEPT ![c] = LkRegionDropCalls(region_type)]
        /\ UNCHANGED <<lkHeld, lkSpin>>

\* spin::Mutex::lock: the CPU takes a free lock, waits while another CPU
\* holds it, and spins for ever on a lock it holds itself.
LkLock(c) ==
    /\ lkProg[c] # <<>>
    /\ ~lkSpin[c]
    /\ lkProg[c][1].op = "lock"
    /\ UNCHANGED <<notLkVars, lkCall>>
    /\ \E l \in {lkProg[c][1].lock} :
        \/ /\ LkHolds(c, l)
           /\ lkSpin' = [lkSpin EXCEPT ![c] = TRUE]
           /\ UNCHANGED <<lkProg, lkHeld>>
        \/ /\ LkFree(l)
           /\ lkHeld' = [lkHeld EXCEPT ![c] = Append(@, l)]
           /\ lkProg' = [lkProg EXCEPT ![c] = Tail(@)]
           /\ UNCHANGED lkSpin

\* spin::Mutex::try_lock and the allocate_frame under it: a frame (the lock
\* is held until the guard goes), no frame in the zone, or the lock not
\* free; the last two give None.
LkTryLock(c) ==
    /\ lkProg[c] # <<>>
    /\ lkProg[c][1].op = "try_lock"
    /\ UNCHANGED <<notLkVars, lkCall>>
    /\ \E l \in {lkProg[c][1].lock} :
        \/ /\ LkFree(l)
           /\ lkHeld' = [lkHeld EXCEPT ![c] = Append(@, l)]
           /\ \/ lkProg' = [lkProg EXCEPT ![c] = Tail(@)]
              \/ lkProg' = [lkProg EXCEPT ![c] = << Unlock(l) >> \o @[1].fail]
        \/ /\ ~LkFree(l)
           /\ lkProg' = [lkProg EXCEPT ![c] = @[1].fail]
           /\ UNCHANGED lkHeld
    /\ UNCHANGED lkSpin

\* A guard is dropped.
LkUnlock(c) ==
    /\ lkProg[c] # <<>>
    /\ lkProg[c][1].op = "unlock"
    /\ UNCHANGED notLkVars
    /\ lkHeld' = [lkHeld EXCEPT ![c] = SelectSeq(@, LAMBDA h : h # lkProg[c][1].lock)]
    /\ lkProg' = [lkProg EXCEPT ![c] = Tail(@)]
    /\ lkCall' = [lkCall EXCEPT ![c] = IF Len(lkProg[c]) = 1 THEN "none" ELSE @]
    /\ UNCHANGED lkSpin

LkNext ==
    \E c \in LkCpus :
        \/ LkHeapAlloc(c)
        \/ LkHeapDealloc(c)
        \/ LkAllocateRegion(c)
        \/ LkRegionDrop(c)
        \/ LkLock(c)
        \/ LkTryLock(c)
        \/ LkUnlock(c)

RegionInit ==
    /\ regionPages = RegionManagerNew(RangeBase, RangeLimit)
    /\ liveRegions = {}
    /\ regionHist = HistInit
    /\ regionPanic = FALSE


Init == RegionInit /\ FlInit /\ HeapInit /\ SchedInit /\ PidInit /\ ImInit /\ FrInit /\ PteInit /\ HdrInit /\ BootInit
            /\ SwInit /\ MfInit /\ LkInit /\ NtInit

Next ==
    \/ AllocateRegion
    \/ AllocateKernelStack
    \/ MapPhysicalMemory
    \/ DropRegion

Spec == Init /\ [][Next]_vars

FreeListSpec == Init /\ [][FlNext]_vars

HeapSpec == Init /\ [][HeapNext]_vars

SchedSpec == Init /\ [][SchedNext]_vars

PidSpec == Init /\ [][PidNext]_vars

ImSpec == Init /\ [][ImNext]_vars

FrameSpec == Init /\ [][FrNext]_vars

PteSpec == Init /\ [][PteNext]_vars

HdrSpec == Init /\ [][HdrNext]_vars

BootSpec == Init /\ [][BootNext]_vars

SwitchSpec == Init /\ [][SwNext]_vars

FlushSpec == Init /\ [][MfNext]_vars

LockSpec == Init /\ [][LkNext]_vars

TypeSpec == Init /\ [][NtNext]_vars

\* Every CPU that can take a step of its boot code takes one, and a task
\* switch that was begun on CPU 0 is carried through.
BootFairSpec ==
    /\ Init
    /\ [][BootNext]_vars
    /\ WF_vars(BspStep)
    /\ \A a \in Aps : WF_vars(ApStep(a))
    /\ WF_vars(BootSwitch)
    /\ WF_vars(BootReschedule /\ schedCpus[0].pc = "reschedule")

(***************************************************************************)
(* Region manager properties                                               *)
(***************************************************************************)
WholeRange == [start_va |-> RangeBase, limit_va |-> RangeLimit]
FreshMap == << [base |-> RangeBase, limit |-> RangeLimit, rtype |-> "Free"] >>

WholeRequestSucceeds(pages) ==
    RegionMap(pages) = FreshMap =>
        \A kind \in RegionTypes \ {"Free"} :
            LET r == allocate_region(pages, RangePages, kind, FALSE, "ok", FALSE)
            IN  /\ r.res = "Ok"
                /\ r.info = WholeRange
                /\ RegionMap(r.pages) =
                        << [base |-> RangeBase, limit |-> RangeLimit, rtype |-> kind] >>

\* C4: in a fresh region manager the request for the whole range succeeds
\* with one region spanning the range; while that region is live every
\* allocation request fails with NoRegionAddressSpaceAvailable and leaves
\* the map unchanged; dropping it gives back the fresh map, in which the
\* whole-range request succeeds again.
C4_WholeRangeAllocation ==
    [][ /\ WholeRequestSucceeds(regionPages)
        /\ WholeRequestSucceeds(regionPages')
        /\ (WholeRange \in liveRegions /\ regionHist'.op = "alloc") =>
                /\ regionHist'.res = "NoRegionAddressSpaceAvailable"
                /\ regionPages' = regionPages
                /\ liveRegions' = liveRegions
        /\ (WholeRange \in liveRegions /\ WholeRange \notin liveRegions') =>
                /\ regionHist'.op = "drop"
                /\ RegionMap(regionPages') = FreshMap
        /\ (WholeRange \notin liveRegions /\ WholeRange \in liveRegions') =>
                /\ RegionMap(regionPages) = FreshMap
                /\ liveRegions' = {WholeRange}
      ]_vars

\* C4 witness: an allocation request has failed with
\* NoRegionAddressSpaceAvailable while the whole-range region is live.
C4_Witness ==
    /\ WholeRange \in liveRegions
    /\ regionHist.op = "alloc"
    /\ regionHist.res = "NoRegionAddressSpaceAvailable"

\* Dropping a live Region handle never panics.
DropOfLiveRegionSucceeds == regionHist.op = "drop" => regionHist.res = "Ok"

(***************************************************************************)
(* Free list properties                                                    *)
(***************************************************************************)
\* [lo, hi) lies inside one hole of the free list.
Covered(nodes, lo, hi) ==
    lo = hi \/ \E k \in 1..Len(nodes) :
                    nodes[k].addr <= lo /\ hi <= nodes[k].addr + nodes[k].size

\* C5: a successful allocate(L) followed by deallocate(p, L) of the returned
\* pointer restores allocated_space and free_space to their values before
\* the allocate.
C5_AllocateDeallocateRestoresCounters ==
    (flHist.op = "dealloc" /\ flHist.undoes) =>
        /\ flHist.res = "Ok"
        /\ flist.allocated_space = flHist.pre[1]
        /\ flist.free_space = flHist.pre[2]

\* C5 witness: such a pair has run while another allocation was live.
C5_Witness ==
    /\ flHist.op = "dealloc"
    /\ flHist.undoes
    /\ flLive # {}
    /\ flist.allocated_space > 0

\* C6: once every allocation has been deallocated the free bytes are the
\* initial ones and the free list is one hole covering the whole buffer:
\* node count 1, free_space = buffer size, allocated_space = 0.
C6_AllFreedIsSingleHole ==
    (flLive = {} /\ ~flPanic) =>
        /\ node_count(flist) = 1
        /\ flist.nodes[1] = [addr |-> FlBufStart, size |-> FlBufLimit - FlBufStart]
        /\ flist.free_space = FlBufLimit - FlBufStart
        /\ flist.allocated_space = 0

\* C6 witness: the last deallocation put a hole exactly between two free
\* nodes and emptied the set of live allocations.
C6_Witness ==
    /\ flLive = {}
    /\ flHist.op = "dealloc"
    /\ flHist.res = "Ok"
    /\ flHist.between
    /\ ~flHist.undoes

\* What C7 says of one allocate call: fl is the list before the call, a the
\* result of FreeListAllocate on it for a layout of alignment align.
AlignedInHole(fl, a, size, align) ==
    a.res = "Some" =>
        /\ a.ptr % align = 0
        /\ a.hole.addr <= a.ptr
        /\ a.ptr + size <= a.hole.addr + a.hole.size
        /\ Covered(fl.nodes, a.hole.addr, a.hole.addr + a.hole.size)
        /\ \A k \in 1..Len(a.fl.nodes) :
                \/ a.fl.nodes[k].addr + a.fl.nodes[k].size <= a.ptr
                \/ a.ptr + size <= a.fl.nodes[k].addr
        /\ (a.hole.addr % align # 0) =>
                /\ a.ptr > a.hole.addr
                /\ Covered(a.fl.nodes, a.hole.addr, a.ptr)
                /\ Covered(a.fl.nodes, a.ptr + size, a.hole.addr + a.hole.size)

\* C7: for every power-of-two alignment A up to the page size, a successful
\* allocate with alignment A returns a pointer that is a multiple of A and
\* lies, with its size, inside the hole it was taken from; when the hole
\* start is not A-aligned, the bytes of the hole before the pointer and the
\* bytes behind the allocation are holes of the free list; the allocated
\* bytes are not.
C7_AllocationAligned ==
    /\ \A size \in FlSizes, align \in PageAligns :
            LET layout == align_layout(size, align)
            IN  AlignedInHole(flist, FreeListAllocate(flist, layout), layout.size, align)
    /\ (flHist.op = "alloc" /\ flHist.res = "Some") =>
            /\ flHist.ptr % flHist.align = 0
            /\ flHist.hole.addr <= flHist.ptr
            /\ flHist.ptr + flHist.size <= flHist.hole.addr + flHist.hole.size
            /\ (flHist.hole.addr % flHist.align # 0) =>
                    /\ Covered(flist.nodes, flHist.hole.addr, flHist.ptr)
                    /\ Covered(flist.nodes, flHist.ptr + flHist.size,
                               flHist.hole.addr + flHist.hole.size)

\* C7 witness: a page-aligned allocation taken from a hole whose start is
\* not page aligned, with free bytes left on both sides.
C7_Witness ==
    /\ flHist.op = "alloc"
    /\ flHist.res = "Some"
    /\ flHist.align = PAGE_SIZE
    /\ flHist.hole.addr % PAGE_SIZE # 0
    /\ flHist.ptr + flHist.size < flHist.hole.addr + flHist.hole.size

(***************************************************************************)
(* Heap allocator properties                                               *)
(***************************************************************************)
\* C8: for every pointer a successful alloc returned and that is still
\* live, dealloc with the same layout is taken by a heap region whose
\* backing span contains the whole allocation, gives the bytes back to that
\* region's free list and does not end in the "Failed to deallocate pointer"
\* panic, wherever in the span the allocation lies.
C8_DeallocFindsContainingRegion ==
    heapHist.op = "dealloc" =>
        /\ heapHist.msg # "Failed to deallocate pointer"
        /\ heapHist.res = "Ok"
        /\ heapHist.span

\* C9: once allocations have forced extra backing regions and every
\* allocation has been given back, every can_free region has been released
\* to the region manager unless the total free space is at most
\* HEAP_RESERVE_LIMIT + MINIMUM_HEAP_REGION_SIZE, and the bootstrap region
\* is still in the list.
C9_EmptyHeapReleasesRegions ==
    (heapGrew /\ heapLive = {} /\ ~heapPanic) =>
        /\ \/ \A k \in 1..Len(heapRegions) : ~heapRegions[k].payload[1].can_free
           \/ HeapRegionList_free_space(heapRegions)
                <= HEAP_RESERVE_LIMIT + MINIMUM_HEAP_REGION_SIZE
        /\ \E k \in 1..Len(heapRegions) : heapRegions[k].payload[1].alloc_region.buffer

(***************************************************************************)
(* Scheduler properties                                                    *)
(***************************************************************************)
\* The places that hold the control block of task t: ready-list positions,
\* current slots and old slots.
ReadyPlaces(t) ==
    {<<p, i>> \in (0..(PRIORITIES_COUNT - 1)) \X (1..(NumCpus + MaxSpawned)) :
        i <= Len(ready_lists[p]) /\ ready_lists[p][i] = t}
CurrentPlaces(t) == {c \in Cpus : schedCpus[c].current = t}
OldPlaces(t) == {c \in Cpus : schedCpus[c].old = t}

\* C10: in every reachable state each task's control block is in at most
\* one place among the ready lists, the current slots and the old slots of
\* the CPUs; no task is on a ready list while current on a CPU and no task
\* is current on two CPUs.
C10_TaskInAtMostOnePlace ==
    \A t \in 1..Len(schedTasks) :
        Cardinality(ReadyPlaces(t)) + Cardinality(CurrentPlaces(t))
            + Cardinality(OldPlaces(t)) <= 1

\* A switch is in progress on one CPU (current and old slot both filled)
\* while a ready list holds a task and the other CPU runs its own task.
C10_Witness ==
    \E c \in Cpus, d \in Cpus :
        /\ c # d
        /\ schedCpus[c].old # NoTask
        /\ schedCpus[c].current # NoTask
        /\ schedCpus[d].current # NoTask
        /\ \E p \in 0..(PRIORITIES_COUNT - 1) : ready_lists[p] # <<>>

\* The entries of ready list p.
OnReadyList(lists, p) == {lists[p][i] : i \in 1..Len(lists[p])}

\* C11: a reschedule() on CPU c that selected a next task moves the current
\* task to the old slot and the selected task to the current slot
\* (prepare_task_switch), and when the switch completes
\* (complete_task_switch) the outgoing task is Ready and on the ready list of
\* its priority, the incoming task is Running in c's current slot, and c's
\* old slot is empty.
C11_SwitchStep(c) ==
    /\ (schedCpus[c].pc = "prepare" /\ schedCpus'[c].pc = "switch") =>
            /\ schedCpus'[c].current = schedCpus[c].next_task
            /\ schedCpus'[c].old = schedCpus[c].current
    /\ (schedCpus[c].pc = "switch" /\ schedCpus'[c].pc = "return") =>
            /\ schedCpus[c].old # NoTask
            /\ schedTasks'[schedCpus[c].old].state = "Ready"
            /\ schedCpus[c].old \in
                    OnReadyList(ready_lists', schedTasks[schedCpus[c].old].priority)
            /\ schedCpus'[c].current = schedCpus[c].current
            /\ schedCpus'[c].current # NoTask
            /\ schedTasks'[schedCpus'[c].current].state = "Running"
            /\ schedCpus'[c].old = NoTask

C11_SwitchCompletes == [][\A c \in Cpus : C11_SwitchStep(c)]_vars

\* A switch has completed on a CPU whose outgoing task was a Normal task.
C11_Witness ==
    \E c \in Cpus :
        /\ schedCpus[c].pc = "return"
        /\ schedCpus[c].old = NoTask
        /\ schedTasks[schedCpus[c].current].state = "Running"
        /\ ready_lists[PriorityNormal] # <<>>
        /\ ~schedPanic

\* C12: a task that was switched out inside reschedule() and is selected
\* again resumes behind the switch in its own reschedule() call, and that
\* call returns to its caller: the step out of do_switch into a task that
\* has run before does not panic and leaves the CPU in the task's code.
C12_ResumedRescheduleReturns ==
    [][\A c \in Cpus :
        (/\ ~schedPanic
         /\ schedCpus[c].pc = "return"
         /\ schedCpus'[c] # schedCpus[c] \/ schedPanic'
         /\ schedTasks[schedCpus[c].current].entered)
        => (~schedPanic' /\ schedCpus'[c].pc = "run")]_vars

\* Task t may run on CPU c: its affinity is absent or is c.
Admits(t, c) == schedTasks[t].cpu_id = NoCpu \/ schedTasks[t].cpu_id = c

\* The levels at or above priority P whose ready list holds a task that may
\* run on CPU c.
EligibleLevels(P, c) ==
    {p \in P..(PRIORITIES_COUNT - 1) :
        \E i \in 1..Len(ready_lists[p]) : Admits(ready_lists[p][i], c)}

\* Position i of ready list p holds the front-most task that may run on c,
\* and the step takes exactly that entry off the lists.
TakesFrontMost(p, i, c) ==
    /\ i \in 1..Len(ready_lists[p])
    /\ Admits(ready_lists[p][i], c)
    /\ \A j \in 1..(i - 1) : ~Admits(ready_lists[p][j], c)
    /\ schedCpus'[c].next_task = ready_lists[p][i]
    /\ ready_lists' = [ready_lists EXCEPT ![p] =
            [k \in 1..(Len(@) - 1) |-> IF k < i THEN @[k] ELSE @[k + 1]]]

\* C13: find_next_task, called by reschedule() on CPU c with the priority P
\* of the current task, returns the front-most task that may run on c of the
\* highest level >= P holding such a task, never a task of priority below P;
\* when there is none it returns nothing and reschedule() leaves the current
\* slot, the ready lists and the task states as they are.
C13_RescheduleStep(c) ==
    (/\ schedCpus[c].pc \in {"run", "reschedule"}
     /\ schedCpus'[c].pc \in {"run", "prepare"}
     /\ schedCpus'[c] # schedCpus[c])
    => \E P \in {schedTasks[schedCpus[c].current].priority} :
        IF EligibleLevels(P, c) = {}
        THEN /\ schedCpus'[c].next_task = NoTask
             /\ schedCpus'[c].pc = "run"
             /\ schedCpus'[c].current = schedCpus[c].current
             /\ schedCpus'[c].old = schedCpus[c].old
             /\ ready_lists' = ready_lists
             /\ schedTasks' = schedTasks
        ELSE /\ schedCpus'[c].pc = "prepare"
             /\ schedCpus'[c].next_task # NoTask
             /\ schedTasks[schedCpus'[c].next_task].priority >= P
             /\ schedCpus'[c].current = schedCpus[c].current
             /\ schedTasks' = schedTasks
             /\ \E p \in EligibleLevels(P, c) :
                    /\ \A q \in EligibleLevels(P, c) : q <= p
                    /\ \E i \in 1..Len(ready_lists[p]) : TakesFrontMost(p, i, c)

C13_FindNextTaskOrder == [][\A c \in Cpus : C13_RescheduleStep(c)]_vars

\* reschedule() has selected a task from behind a task bound to another CPU,
\* with a task left on the list of the higher level.
C13_Witness ==
    \E c \in Cpus :
        /\ schedCpus[c].pc = "prepare"
        /\ ready_lists[PriorityIdle] # <<>>
        /\ schedTasks[ready_lists[PriorityIdle][1]].cpu_id \notin {NoCpu, c}
        /\ ready_lists[PriorityNormal] # <<>>

\* The position of task t on the list l that holds it.
PositionOn(l, t) == CHOOSE i \in 1..Len(l) : l[i] = t

\* The tasks on both lists stand in the same order on both.
OrderKept(old, new) ==
    \A i \in 1..Len(old), j \in 1..Len(old) :
        (/\ i < j
         /\ \E m \in 1..Len(new) : new[m] = old[i]
         /\ \E n \in 1..Len(new) : new[n] = old[j])
        => PositionOn(new, old[i]) < PositionOn(new, old[j])

\* No CPU holds, as selected, current or outgoing task, a task bound to
\* another CPU.
BoundTasksStayHome ==
    \A c \in Cpus :
        \A t \in {schedCpus[c].next_task, schedCpus[c].current, schedCpus[c].old} \ {NoTask} :
            Admits(t, c)

\* A queued task bound to CPU k stays on its list, the order of the tasks
\* that remain kept, unless CPU k takes it as the task it selected.
BoundTaskWaits ==
    \A p \in 0..(PRIORITIES_COUNT - 1) :
        /\ OrderKept(ready_lists[p], ready_lists'[p])
        /\ \A i \in 1..Len(ready_lists[p]) :
            \E t \in {ready_lists[p][i]} :
                schedTasks[t].cpu_id # NoCpu =>
                    \/ t \in OnReadyList(ready_lists', p)
                    \/ /\ schedCpus[schedTasks[t].cpu_id].pc \in {"run", "reschedule"}
                       /\ schedCpus'[schedTasks[t].cpu_id].next_task = t

\* C14: a task whose affinity is CPU k is never selected by reschedule() on
\* another CPU and is never another CPU's current task; it stays on its ready
\* list, in its position relative to the tasks that remain, until CPU k
\* selects it in reschedule().
C14_AffinityRespected == []BoundTasksStayHome /\ [][BoundTaskWaits]_vars

\* A CPU running its idle task has selected a task while the idle task of
\* another CPU was queued, and that idle task is still queued.
C14_Witness ==
    \E c \in Cpus, k \in Cpus :
        /\ c # k
        /\ schedCpus[c].pc = "switch"
        /\ schedTasks[schedCpus[c].old].priority = PriorityIdle
        /\ \E i \in 1..Len(ready_lists[PriorityIdle]) :
                schedTasks[ready_lists[PriorityIdle][i]].cpu_id = k

(***************************************************************************)
(* Pid properties                                                          *)
(***************************************************************************)
UserPids == 0..(MAX_PID - 1)
SystemPids == (MIN_SYSTEM_PID + 1)..USIZE_MAX

\* C15: every pid generate_pid returns is distinct from the pids in the
\* process map; user pids lie in [0, MAX_PID) and system pids in
\* (MIN_SYSTEM_PID, 2^64 - 1], two ranges that do not overlap; when the
\* range asked for has no unused pid left the call is OutOfPids and no task
\* is added to the process map.
C15_PidsUniqueAndRanged ==
    /\ UserPids \cap SystemPids = {}
    /\ process_map \subseteq UserPids \cup SystemPids
    /\ pidHist.op = "create" =>
        /\ pidHist.res = "Ok" =>
            /\ pidHist.pid \notin pidHist.pre
            /\ process_map = pidHist.pre \cup {pidHist.pid}
            /\ pidHist.pid \in (IF pidHist.system_task THEN SystemPids ELSE UserPids)
        /\ (IF pidHist.system_task THEN SystemPids ELSE UserPids) \subseteq pidHist.pre
                => pidHist.res = "OutOfPids"
        /\ pidHist.res = "OutOfPids" => process_map = pidHist.pre

\* Both ranges are used up and a further task of each kind was refused.
C15_Witness ==
    /\ pidHist.op = "create"
    /\ pidHist.res = "OutOfPids"
    /\ UserPids \subseteq process_map
    /\ SystemPids \subseteq process_map

(***************************************************************************)
(* InitMutex properties                                                    *)
(***************************************************************************)
\* C16: an InitMutex goes from uninitialized to initialized exactly once: a
\* second init on an initialized InitMutex panics and does not replace the
\* stored value.
C16_SecondInitPanics ==
    (imHist.op = "init" /\ imHist.pre # <<>>) =>
        /\ imHist.res = "panic"
        /\ imPanic
        /\ imValue = imHist.pre

\* C17: locking an InitMutex before init has been called panics.
C17_LockBeforeInitPanics ==
    (imHist.op = "lock" /\ imHist.pre = <<>>) => (imHist.res = "panic" /\ imPanic)

\* C17 amended: lock() before init returns a guard; dereferencing that guard
\* (deref or deref_mut) panics, so that no caller obtains access to a value
\* from an uninitialized InitMutex: every reference handed out is to a
\* stored value.
C17_NoAccessBeforeInit ==
    /\ (imHist.op \in {"deref", "deref_mut"} /\ imHist.pre = <<>>) =>
            (imHist.res = "panic" /\ imPanic /\ imHist.ref = <<>> /\ imValue = <<>>)
    /\ (imHist.op \in {"deref", "deref_mut"} /\ imHist.res = "Ok") =>
            (imHist.pre # <<>> /\ imHist.ref = imHist.pre)
    /\ (imHist.op = "lock" /\ imHist.pre = <<>>) =>
            (imHist.res = "Ok" /\ imHist.ref = <<>>)

\* A guard taken before init was dereferenced.
C17_Witness ==
    /\ imHist.op \in {"deref", "deref_mut"}
    /\ imHist.pre = <<>>
    /\ imInits = 0

(***************************************************************************)
(* Frame allocator properties                                              *)
(***************************************************************************)
\* The frames each zone holds free.
ZoneFree(z) == {i + frZones[z].start_frame : i \in frZones[z].bitmask}
FreeFrames == UNION {ZoneFree(z) : z \in 1..Len(frZones)}

AllPages == 0..(FrVaPages - 1)

\* The pages of the live Heap and KernelStack regions, and of all live regions.
OwnedPages == UNION {r.base..(r.limit - 1) : r \in {q \in frRegions : q.rtype # "PhysicalMapping"}}
LivePages == UNION {r.base..(r.limit - 1) : r \in frRegions}

\* C18: every frame is held by at most one of a zone's free bitmask, a live
\* page-table mapping and a live Region (or the caller that allocated it);
\* allocate_frame never returns a frame that is currently allocated, and a
\* frame freed by the drop of a Heap or KernelStack region is no longer mapped
\* by any live region.
C18_FrameHeldOnce ==
    /\ \A y \in 1..Len(frZones), z \in 1..Len(frZones) :
            y # z => ZoneFree(y) \cap ZoneFree(z) = {}
    /\ FreeFrames \cap FramesMapped(frPte, AllPages) = {}
    /\ FreeFrames \cap frHeld = {}
    /\ frHeld \cap FramesMapped(frPte, AllPages) = {}
    /\ \A p \in OwnedPages, q \in AllPages :
            (p # q /\ frPte[p].kind = "present" /\ frPte[q].kind = "present")
                => frPte[p].frame # frPte[q].frame
    /\ frHist.res # "hang" =>
            \A p \in AllPages : frPte[p].kind = "present" => p \in LivePages
    /\ (frHist.op \in {"allocate_frame", "map"} /\ frHist.res = "Ok") =>
            /\ frHist.frames \cap frHist.preAllocated = {}
            /\ frHist.frames \cap frHist.preMapped = {}
            /\ frHist.frames \cap FreeFrames = {}
    /\ frHist.op = "drop" =>
            /\ frHist.frames \cap FramesMapped(frPte, AllPages) = {}
            /\ frHist.frames \subseteq FreeFrames

\* A Heap or KernelStack region was dropped and freed its frames while
\* another region is live and mapped.
C18_Witness ==
    /\ frHist.op = "drop"
    /\ frHist.res = "Ok"
    /\ frHist.frames # {}
    /\ FramesMapped(frPte, OwnedPages) # {}
    /\ frHeld # {}

\* The frames of the regions of the given kinds in the boot memory map.
FramesOfKind(kinds) ==
    {f \in 0..HIGH_REGION_FRAMES :
        \E i \in 1..Len(frMemoryMap) :
            /\ frMemoryMap[i].region_type \in kinds
            /\ frMemoryMap[i].start_addr <= f * PAGE_SIZE
            /\ f * PAGE_SIZE < frMemoryMap[i].end_addr}

\* The frames zone z has been given: the usable frames of its range at
\* init, and the reclaimable ones once reclaim has run.
GivenFrames(z) ==
    {f \in FramesOfKind({"Usable"}) \cup
            (IF frPhase = "reclaimed"
             THEN FramesOfKind({"KernelStack", "PageTable", "Bootloader", "BootInfo", "Package"})
             ELSE {}) :
        /\ f >= frZones[z].start_frame
        /\ f < frZones[z].limit_frame
        /\ f * PAGE_SIZE >= MINIMUM_ADDRESS}

\* C19: in every zone free_frames is the number of set bits of the bitmask
\* and free_frames + used_frames is the number of frames the zone has been
\* given (usable at init plus reclaimed); allocate_frame and deallocate_frame
\* leave that sum unchanged.
C19_ZoneCountersAgree ==
    (~frPanic) =>
    \A z \in 1..Len(frZones) :
        /\ frZones[z].free_frames = Cardinality(frZones[z].bitmask)
        /\ frZones[z].free_frames + frZones[z].used_frames = Cardinality(GivenFrames(z))
        /\ frZones[z].used_frames >= 0
        /\ frHist.op \in {"allocate_frame", "deallocate_frame", "map", "drop", "drop_physical"} =>
                frZones[z].free_frames + frZones[z].used_frames
                    = frHist.preZones[z].free_frames + frHist.preZones[z].used_frames

\* After reclaim, a frame was given back to a zone that still has frames in use.
C19_Witness ==
    /\ frPhase = "reclaimed"
    /\ frHist.op \in {"deallocate_frame", "drop"}
    /\ frHist.frames # {}
    /\ \E z \in 1..Len(frZones) : frZones[z].used_frames > 0 /\ frZones[z].free_frames > 0

(***************************************************************************)
(* Page table entry properties                                             *)
(***************************************************************************)
Bit0(r) == r.bits % 2 = 1

\* C20: for every raw entry r, present() succeeds exactly when bit 0 of r is
\* set and not_present() exactly when it is clear, so exactly one of the two
\* succeeds and the other returns InvalidPteError; the decoded value converted
\* back to a RawPte has exactly the bits of r.
C20_PteDecodeRoundTrip ==
    /\ ptePresent # <<>> =>
          /\ ptePresent[1].res \in {"Ok", "Err"}
          /\ ptePresent[1].res = "Ok" <=> Bit0(pteRaw)
    /\ pteNotPresent # <<>> =>
          /\ pteNotPresent[1].res \in {"Ok", "Err"}
          /\ pteNotPresent[1].res = "Ok" <=> ~Bit0(pteRaw)
    /\ (ptePresent # <<>> /\ pteNotPresent # <<>>) =>
          Cardinality({i \in {1, 2} :
              <<ptePresent[1], pteNotPresent[1]>>[i].res = "Ok"}) = 1
    /\ pteBack # <<>> =>
          /\ pteBack[1].type = "RawPte"
          /\ pteBack[1].bits = pteRaw.bits

C20_Witness ==
    /\ ptePresent # <<>>
    /\ pteNotPresent # <<>>
    /\ pteBack # <<>>
    /\ Bit0(pteRaw)
    /\ pteRaw.bits > 1

(***************************************************************************)
(* Region header entry properties                                          *)
(***************************************************************************)
HdrDecodes(limit) ==
    /\ (hdrPresent # <<>> /\ hdrSize \in 1 .. limit) =>
          /\ hdrPresent[1].res = "Ok"
          /\ PresentRegionHeaderPte_size_in_chunks(hdrPresent[1].value) = hdrSize
    /\ (hdrNotPresent # <<>> /\ hdrSize \in 1 .. limit) =>
          /\ hdrNotPresent[1].res = "Ok"
          /\ NotPresentRegionHeaderPte_size_in_chunks(hdrNotPresent[1].value) = hdrSize

\* C21 as stated: for every region size n with 1 <= n <= 2048 chunks, a
\* region-header entry built with size n decodes to size n.
C21_HeaderSizeUpTo2048 == HdrDecodes(2048)

\* C21: for every region size n with 1 <= n <= 2047 chunks, a region-header
\* entry built with size n decodes to size n, in the present and in the
\* not-present encoding; the size is held in bits 52..62 in both, so an entry
\* rewritten from one encoding to the other with the same counter has the same
\* bits 52..62 and decodes to the same size.  Size 2048 does not fit.
C21_HeaderSizeRoundTrip ==
    /\ HdrDecodes(2047)
    /\ (hdrPresent # <<>> /\ hdrNotPresent # <<>> /\ hdrSize \in 1 .. 2047) =>
          /\ hdrPresent[1].value \cap (52 .. 62) = hdrNotPresent[1].value \cap (52 .. 62)
          /\ ValueOf({i - 52 : i \in hdrPresent[1].value \cap (52 .. 62)}) = hdrSize
    /\ (hdrSize = 2048 /\ hdrPresent # <<>>) => hdrPresent[1].res = "Panic"
    /\ (hdrSize = 2048 /\ hdrNotPresent # <<>>) => hdrNotPresent[1].res = "Panic"

C21_Witness ==
    /\ hdrSize = 2047
    /\ hdrPresent # <<>>
    /\ hdrNotPresent # <<>>
    /\ hdrPresent[1].res = "Ok"
    /\ hdrNotPresent[1].res = "Ok"
    /\ NO_EXECUTE \in hdrPresent[1].value

(***************************************************************************)
(* Kernel stack, region drop and first-fit properties                      *)
(***************************************************************************)
\* C22: a request for a kernel stack of one page is rejected: no KernelStack
\* region that is one page long (the guard page alone) is ever handed out.
C22_OnePageStackRejected ==
    \A k \in 1 .. Len(RegionMap(regionPages)) :
        LET e == RegionMap(regionPages)[k]
        IN  ~(e.rtype = "KernelStack" /\ EntrySize(e) = PAGE_SIZE)

\* C23: the drop of a PhysicalMapping region unmaps all of its pages and
\* returns none of the mapped frames: the zones (bitmasks and counters) are
\* as before.  The drop of a Heap or KernelStack region unmaps all of its
\* pages and returns each frame they mapped exactly once: those frames were
\* not free, are free afterwards, nothing else becomes free, and each zone's
\* free_frames grows and used_frames shrinks by the number of its frames
\* that became free.
C23_DropStep ==
    \A r \in frRegions \ frRegions' :
        LET pages == r.base .. (r.limit - 1)
            frames == FramesMapped(frPte, pages)
        IN  /\ ~frPanic'
            /\ \A p \in pages : frPte'[p] = UnusedPte
            /\ \A p \in AllPages \ pages : frPte'[p] = frPte[p]
            /\ IF r.rtype = "PhysicalMapping"
               THEN frZones' = frZones
               ELSE /\ frames \cap FreeFrames = {}
                    /\ FreeFrames' = FreeFrames \cup frames
                    /\ \A z \in 1 .. Len(frZones) :
                          /\ frZones'[z].free_frames =
                                frZones[z].free_frames + Cardinality(ZoneFree(z)' \ ZoneFree(z))
                          /\ frZones'[z].used_frames =
                                frZones[z].used_frames - Cardinality(ZoneFree(z)' \ ZoneFree(z))

C23_DropFreesOwnedFramesOnly == [][C23_DropStep]_vars

C23_Witness ==
    /\ frHist.op = "drop_physical"
    /\ frHist.res = "Ok"
    /\ frHist.frames # {}
    /\ \E r \in frRegions : r.rtype # "PhysicalMapping"
    /\ \E z \in 1 .. Len(frZones) :
          frHist.frames \subseteq frZones[z].start_frame .. (frZones[z].limit_frame - 1)

(***************************************************************************)
(* Boot properties                                                         *)
(***************************************************************************)
Started(a) == bootAps[a] = "WaitingForSipi"
\* between the Startup IPI and the AP's store of AP_READY
InFlight(a) == apPc[a] \in {"trampoline", "trampoline_loaded", "enter_ap", "sched_init", "ap_ready"}
StoredApReady(a) == apPc[a] \in {"wait_bsp", "idle"}

\* the Startup IPI reaches AP a in this step
SipiStep(a) == apPc[a] # "trampoline" /\ apPc'[a] = "trampoline"

C24_BringUpStep ==
    /\ \A a \in Aps :
          SipiStep(a) =>
             /\ Started(a)
             /\ apPc[a] = "wait_for_sipi"
             /\ ~AP_READY
             /\ trampoline = [ready |-> 0, stack |-> a, startup_data |-> a, code |-> "enter_ap"]
    /\ (bspAp' # bspAp /\ bspAp \in Aps /\ Started(bspAp)) =>
             /\ trampoline.ready # 0
             /\ AP_READY
             /\ StoredApReady(bspAp)
    /\ (bspPc # "bsp_ready" /\ bspPc' = "bsp_ready") =>
             \A a \in Aps : Started(a) => StoredApReady(a)

\* C24: the BSP brings the APs up one at a time: when the Startup IPI goes to
\* an AP, that AP has had its INIT IPI, AP_READY is false and the trampoline
\* page holds ready = 0, its stack top, its startup data and the entry
\* function; the BSP goes on to the next AP, or returns from start_aps, only
\* when the ready word is nonzero and AP_READY is true; at most one AP is
\* between its Startup IPI and its store of AP_READY.
C24_ApBringUpSerialized ==
    /\ [](Cardinality({a \in Aps : InFlight(a)}) <= 1)
    /\ [][C24_BringUpStep]_vars

C24_Witness ==
    /\ \A a \in Aps : Started(a)
    /\ \E a, b \in Aps : StoredApReady(a) /\ InFlight(b)
    /\ ~BSP_READY

\* C25: no AP is in its idle loop before BSP_READY is true; an AP has stored
\* AP_READY only with its idle task installed as the current task of its
\* CPU; BSP_READY is true only after start_aps has returned, with every
\* started AP past its store of AP_READY.
C25_ReadyFlagsOrder ==
    /\ \A a \in Aps : apPc[a] = "idle" => BSP_READY
    /\ \A a \in Aps : StoredApReady(a) => bootCurrent[a] # NoTask
    /\ BSP_READY =>
          /\ bspPc = "spawn"
          /\ \A a \in Aps : Started(a) => StoredApReady(a)
    /\ \A a \in Aps : (apPc[a] # "halted") => Started(a)

C25_Witness ==
    /\ BSP_READY
    /\ \A a \in Aps : Started(a)
    /\ \E a, b \in Aps : apPc[a] = "idle" /\ apPc[b] = "wait_bsp"

BootDone ==
    /\ bspPc = "spawn"
    /\ BSP_READY
    /\ \A a \in Aps : Started(a) => apPc[a] = "idle"

\* C26: with every CPU taking its steps, the handshake does not deadlock:
\* unless a panic halts the kernel, start_aps returns, BSP_READY becomes
\* true and every started AP leaves its wait for BSP_READY.
C26_HandshakeTerminates == <>(BootHalted \/ BootDone)

C26_Witness ==
    /\ BootDone
    /\ ~BootHalted
    /\ \A a \in Aps : Started(a)

\* the idle task of CPU 0 runs behind the spawn of the init task: the
\* "CPU 0 going idle" output and idle_loop
BspGoingIdle ==
    /\ ~BootHalted
    /\ bspPc = "spawn"
    /\ Len(schedTasks) > 1
    /\ schedCpus[0].pc = "run"
    /\ schedTasks[schedCpus[0].current].priority = PriorityIdle

\* C27: on the single-CPU boot path, once the BSP has initialized the
\* scheduler, run start_aps, set BSP_READY and spawned the init task, its
\* idle task eventually reaches the "CPU 0 going idle" output and idle_loop.
C27_BspReachesIdle ==
    ((\A a \in Aps : ~Started(a)) /\ bspPc = "spawn" /\ Len(schedTasks) > 1) ~> BspGoingIdle

\* The Free entries of a region map that can hold `size` bytes.
FitsIn(map, size) ==
    {k \in 1..Len(map) : map[k].rtype = "Free" /\ EntrySize(map[k]) >= size}

\* C28: allocate_region returns the lowest-address Free region whose size is
\* at least the requested size; the returned region has exactly the requested
\* size and starts at that Free region's base, and when the Free region was
\* strictly larger its remainder stays in the map as a Free region that
\* starts at the returned region's limit.
C28_FirstFitSplitsLowestFree ==
    (regionHist.op = "alloc" /\ regionHist.res = "Ok") =>
        \E pre \in {regionHist.pre}, post \in {RegionMap(regionPages)},
           info \in {regionHist.info}, size \in {regionHist.req * PAGE_SIZE} :
            /\ FitsIn(pre, size) # {}
            /\ \E k \in FitsIn(pre, size) :
                /\ \A m \in FitsIn(pre, size) : k <= m
                /\ info.start_va = pre[k].base
                /\ info.limit_va = info.start_va + size
                /\ k <= Len(post)
                /\ post[k] = [base |-> info.start_va, limit |-> info.limit_va,
                              rtype |-> regionHist.kind]
                /\ IF EntrySize(pre[k]) > size
                   THEN /\ Len(post) = Len(pre) + 1
                        /\ post[k + 1] = [base |-> info.limit_va, limit |-> pre[k].limit,
                                          rtype |-> "Free"]
                   ELSE Len(post) = Len(pre)

\* C28 witness: an allocation that had two Free regions large enough to
\* choose from, took the lower one, which was strictly larger than the
\* request, and left its remainder Free behind the returned region.
C28_Witness ==
    /\ regionHist.op = "alloc"
    /\ regionHist.res = "Ok"
    /\ \E pre \in {regionHist.pre}, info \in {regionHist.info} :
        /\ Cardinality(FitsIn(pre, info.limit_va - info.start_va)) >= 2
        /\ \E k \in 1..Len(pre) :
            /\ pre[k].base = info.start_va
            /\ pre[k].limit > info.limit_va
        /\ \E k \in 1..Len(RegionMap(regionPages)) :
            /\ RegionMap(regionPages)[k].rtype = "Free"
            /\ RegionMap(regionPages)[k].base = info.limit_va

\* C29: when the mapper fails for the region allocate_region chose, the
\* request returns the error and the region map is exactly as before the
\* call: the chosen Free region keeps its base, limit and Free type, and no
\* entry is added.
C29_FailedMappingLeavesMap ==
    [][(regionHist'.op = "alloc" /\ regionHist'.mapFailed) =>
        /\ regionHist'.res = "OutOfMemory"
        /\ regionHist'.info = NoInfo
        /\ regionPages' = regionPages
        /\ liveRegions' = liveRegions]_vars

\* C29 witness: the mapper has failed for a chosen Free region that is
\* strictly larger than the request, so that its limit had been cut down
\* before the mapper ran.
C29_Witness ==
    /\ regionHist.op = "alloc"
    /\ regionHist.mapFailed
    /\ \E map \in {RegionMap(regionPages)}, size \in {regionHist.req * PAGE_SIZE} :
        /\ FitsIn(map, size) # {}
        /\ \E k \in FitsIn(map, size) :
            /\ \A m \in FitsIn(map, size) : k <= m
            /\ EntrySize(map[k]) > size

\* C30: after any sequence of free-list allocate and deallocate calls the
\* holes on the free list are in strictly ascending address order, do not
\* overlap, and no hole ends at the address where the next hole begins.
C30_HolesOrderedAndApart ==
    /\ \A k \in 1..Len(flist.nodes) : flist.nodes[k].size >= SizeOfFreeNode
    /\ \A k \in 1..(Len(flist.nodes) - 1) :
        /\ flist.nodes[k].addr < flist.nodes[k + 1].addr
        /\ flist.nodes[k].addr + flist.nodes[k].size < flist.nodes[k + 1].addr

\* C30 witness: a deallocation has added its hole to the hole in front of
\* it while the hole behind it is kept apart by a live allocation.
C30_Witness ==
    /\ flHist.op = "dealloc"
    /\ flHist.res = "Ok"
    /\ Len(flist.nodes) >= 2
    /\ flLive # {}
    /\ \E k \in 1..(Len(flist.nodes) - 1) :
        /\ flist.nodes[k].addr < flHist.ptr
        /\ flist.nodes[k].addr + flist.nodes[k].size = flHist.ptr + flHist.size

\* What a deallocation did to the heap region `reg` of the list before the
\* call: kept (still in the list), took (it is the region that accepted the
\* pointer), emptied (the deallocation left it with allocated_space == 0).
C31_RegionStep(reg) ==
    LET a == reg.payload[1].alloc_region
        after == {j \in 1..Len(heapRegions') : heapRegions'[j].payload[1].alloc_region = a}
        kept == after # {}
        took == \A j \in after : heapRegions'[j] # reg
        emptied == took /\ HeapRegion_allocated_space(reg) = heapHist'.size
        own == HeapRegion_free_space(reg) + heapHist'.size
        rest == HeapRegionList_free_space(heapRegions) - HeapRegion_free_space(reg)
        asHeap == {k \in 1..Len(RegionMap(heapVa')) :
                     /\ RegionMap(heapVa')[k].rtype = "Heap"
                     /\ RegionMap(heapVa')[k].base = a.info.start_va}
    IN  /\ ~emptied => kept
        /\ emptied =>
              (kept <=> \/ ~reg.payload[1].can_free
                        \/ /\ rest + own < HEAP_RESERVE_LIMIT
                           /\ own < MINIMUM_HEAP_REGION_SIZE)
        /\ (~kept /\ ~a.buffer) => asHeap = {}

\* C31: when a heap deallocation leaves a heap region with allocated_space
\* == 0, a region with can_free = false is kept in the list; a can_free
\* region is kept exactly when keeping it would leave the global free_space
\* below HEAP_RESERVE_LIMIT and its own free_space is below
\* MINIMUM_HEAP_REGION_SIZE; in every other case the region is unlinked and
\* its Region handle is released to the region allocator.  A region with
\* allocated_space > 0 is never released.
C31_EmptyRegionKeptOrReleased ==
    [][(heapHist'.op = "dealloc" /\ heapHist'.res = "Ok") =>
            \A k \in 1..Len(heapRegions) : C31_RegionStep(heapRegions[k])]_vars

C32_GrowStep ==
    (heapHist'.op = "alloc" /\ heapHist'.res \notin {"panic", "hang"}) =>
        /\ heapHist'.res = "None" =>
                /\ heapRegions' = heapRegions
                /\ heapVa' = heapVa
                /\ heapLive' = heapLive
        /\ heapHist'.grew =>
                /\ heapHist'.res = "Some"
                /\ Len(heapRegions') = Len(heapRegions) + 1
                /\ Tail(heapRegions') = heapRegions
                /\ heapRegions'[1].payload[1].can_free
                /\ ~heapRegions'[1].payload[1].alloc_region.buffer
                /\ SpanHolds(heapRegions'[1].payload[1].alloc_region,
                             heapHist'.ptr, heapHist'.size)
                /\ HeapRegion_allocated_space(heapRegions'[1]) = heapHist'.size
                /\ \E k \in 1..Len(RegionMap(heapVa')) :
                      /\ RegionMap(heapVa')[k].rtype = "Heap"
                      /\ region_info(RegionMap(heapVa')[k])
                            = heapRegions'[1].payload[1].alloc_region.info
        /\ (heapHist'.res = "Some" /\ ~heapHist'.grew) =>
                /\ Len(heapRegions') = Len(heapRegions)
                /\ heapVa' = heapVa

\* C32: when every existing heap region fails the request and
\* expand_and_allocate cannot obtain a Region from the region allocator,
\* alloc returns null and the heap-region list, every region's free list and
\* the counters are unchanged; when the Region is obtained, the new heap
\* region is linked at the list head with can_free = true and the requested
\* allocation is served from it.
C32_ExpandFailsCleanly == [][C32_GrowStep]_vars

\* C32 witness: alloc has returned null from a list that already holds a
\* region obtained by an earlier expand_and_allocate.
C32_Witness ==
    /\ heapHist.op = "alloc"
    /\ heapHist.res = "None"
    /\ Len(heapRegions) >= 2
    /\ heapLive # {}

(***************************************************************************)
(* Context switch properties                                               *)
(***************************************************************************)
\* The saved context of task t holds every register of its latest period
\* of execution.
WholeContextSaved(t) ==
    \A r \in ArchRegNames : swTasks[t].ctx[r] = <<t, swTasks[t].period>>

SwOnReadyList(t) ==
    \E p \in 0..(PRIORITIES_COUNT - 1) : t \in OnReadyList(swReady, p)

\* C33: during a context switch the outgoing task is pushed onto a ready
\* list only after its whole architectural context (CR3, RFLAGS, RBX,
\* R12..R15, RSP, RBP) has been stored in its saved context and the CPU has
\* moved to the incoming task's stack; hence no other CPU can dequeue and
\* resume a task whose context is not yet fully saved: every register a CPU
\* has loaded in do_switch is the latest one of the incoming task.
C33_ReadyOnlyWhenSaved ==
    /\ \A t \in 1..Len(swTasks) :
          SwOnReadyList(t) =>
              /\ WholeContextSaved(t)
              /\ \A c \in SwCpuIds : swCpus[c].regs["rsp"][1] # t
    /\ \A c \in SwCpuIds :
          swCpus[c].pc \in {"switch", "return"} =>
              \A i \in 1..(swCpus[c].step - 1) :
                  swCpus[c].regs[ArchRegs[i]]
                      = <<swCpus[c].current, swTasks[swCpus[c].current].period>>

\* C33 witness: a CPU has loaded the whole context of a task that another
\* CPU had switched out.
C33_Witness ==
    \E c \in SwCpuIds :
        /\ swCpus[c].pc = "return"
        /\ swTasks[swCpus[c].current].saved_by # NoCpu
        /\ swTasks[swCpus[c].current].saved_by # c

(***************************************************************************)
(* Reserved low memory                                                     *)
(***************************************************************************)
\* The frames below 64 KiB.
FramesBelow64K == 0..((65536 \div PAGE_SIZE) - 1)

\* C34: for every boot memory map, no frame with index below 16 (physical
\* address below 64 KiB) is ever marked free in any zone or returned by
\* allocate_frame, also after init_reclaim.
C34_Low64KNeverAllocated ==
    /\ \A z \in 1..Len(frZones) : ZoneFree(z) \cap FramesBelow64K = {}
    /\ frAllocated \cap FramesBelow64K = {}
    /\ frHeld \cap FramesBelow64K = {}
    /\ FramesMapped(frPte, OwnedPages) \cap FramesBelow64K = {}
    /\ frHist.op \in {"allocate_frame", "map"} => frHist.frames \cap FramesBelow64K = {}

\* C34 witness: after init_reclaim, with a boot memory map that has a usable
\* or reclaimable region reaching from below 64 KiB to above it, the low
\* zone has handed out frame 16.
C34_Witness ==
    /\ frPhase = "reclaimed"
    /\ \E i \in 1..Len(frMemoryMap) :
          /\ usable(frMemoryMap[i].region_type) \/ reclaimable(frMemoryMap[i].region_type)
          /\ frMemoryMap[i].start_addr < 65536
          /\ frMemoryMap[i].end_addr > 65536
    /\ frHist.op = "allocate_frame"
    /\ frHist.res = "Ok"
    /\ frHist.zone = LowZone
    /\ frHist.frames = {65536 \div PAGE_SIZE}

(***************************************************************************)
(* TLB flush token properties                                              *)
(***************************************************************************)
\* C35: a MapperFlush that is dropped without being flushed, consumed or
\* explicitly ignored panics; a MapperFlushAll performs exactly one
\* flush_all when flush() is called after it consumed at least one token and
\* performs none when it consumed no token, and it panics if dropped after
\* consuming a token without flush() having been called.
C35_FlushTokensMustBeUsed ==
    /\ mfHist.op = "drop" => mfPanic
    /\ mfHist.op \in {"flush", "ignore", "consume", "all_ignore"} => ~mfPanic
    /\ mfHist.op = "flush" => Cardinality(mfHist.flush) = 1 /\ mfHist.flush_all = 0
    /\ mfHist.op = "all_flush" =>
            /\ ~mfPanic
            /\ mfHist.flush_all = IF mfHist.taken >= 1 THEN 1 ELSE 0
    /\ mfHist.op = "all_drop" =>
            /\ mfHist.flush_all = 0
            /\ mfPanic <=> mfHist.taken >= 1
    /\ mfPanic => mfHist.op \in {"drop", "all_drop"}

\* C35 witness: a MapperFlushAll that had consumed two tokens has been
\* flushed while a third token was flushed on its own.
C35_Witness ==
    /\ mfHist.op = "all_flush"
    /\ mfHist.taken = 2
    /\ mfHist.flush_all = 1
    /\ \E i \in 1..Len(mfTokens) : mfTokens[i].status = "flushed"

(***************************************************************************)
(* Lock order properties                                                   *)
(***************************************************************************)
\* The place of a lock in the order heap, region manager, page table, zone.
LkRank(l) == CHOOSE k \in 1..Len(LkLocks) : LkLocks[k] = l

\* CPU c cannot go on: it spins on a lock of its own or waits for a lock
\* another CPU holds.
LkWaits(c) ==
    /\ lkProg[c] # <<>>
    /\ lkProg[c][1].op = "lock"
    /\ ~LkFree(lkProg[c][1].lock)

\* C36: locks are acquired only in the order heap lock, region-manager lock,
\* page-table lock, zone lock; no CPU acquires the heap lock while it holds
\* the region-manager lock, no CPU re-acquires a spin lock it already holds,
\* and heap allocation, heap deallocation, region allocation and region drop
\* on several CPUs never all wait for one another.
C36_LocksTakenInOrder ==
    /\ \A c \in LkCpus : \A j, k \in 1..Len(lkHeld[c]) :
            j < k => LkRank(lkHeld[c][j]) < LkRank(lkHeld[c][k])
    /\ \A c \in LkCpus :
            (lkProg[c] # <<>> /\ lkProg[c][1].op \in {"lock", "try_lock"}) =>
                \A k \in 1..Len(lkHeld[c]) :
                    LkRank(lkHeld[c][k]) < LkRank(lkProg[c][1].lock)
    /\ \A c \in LkCpus : ~lkSpin[c]
    /\ (\E c \in LkCpus : lkProg[c] # <<>>) => (\E c \in LkCpus : ~LkWaits(c))

(***************************************************************************)
(* Not-present entry type properties                                       *)
(***************************************************************************)
\* C37: for every not-present page type t and every counter c < 2048 the
\* entry from_type_and_counter(t, c) has page_type() = t; a
\* KernelStackGuardPagePte converted to a RawNotPresentPte decodes back with
\* try_from, and an entry of another type decoded as a guard page gives
\* InvalidPteError.
C37_PageTypeRoundTrip ==
    /\ (ntRaw # <<>> /\ ntCounter < MAX_COUNTER_VALUE) => ntRaw[1].entry.res = "Ok"
    /\ ntDecoded # <<>> =>
            ntDecoded[1] = [res |-> "Ok", value |-> ntRaw[1].page_type]
    /\ ntGuard # <<>> =>
            ntGuard[1] = IF ntRaw[1].page_type = NotPresentPageType_GuardPage
                         THEN "Ok" ELSE "InvalidPteError"

(***************************************************************************)
(* Free list counter properties                                            *)
(***************************************************************************)
RECURSIVE SumOfHoles(_)
SumOfHoles(nodes) ==
    IF nodes = <<>> THEN 0 ELSE Head(nodes).size + SumOfHoles(Tail(nodes))

\* C38: allocated_space + free_space is the size of the buffer the free list
\* was created over, and free_space is the sum of the sizes of the holes on
\* the list, the paddings put back during an allocation included.
C38_CountersMatchHoles ==
    /\ flist.allocated_space + flist.free_space
            = FlBufLimit - align_up(FlBufStart, AlignOfFreeNode)
    /\ flist.free_space = SumOfHoles(flist.nodes)

\* An allocation that left a front and a back padding on the list is held
\* next to a second one.
C38_Witness ==
    /\ flHist.op = "alloc"
    /\ flHist.res = "Some"
    /\ flHist.hole.addr < flHist.ptr
    /\ flHist.ptr + flHist.size < flHist.hole.addr + flHist.hole.size
    /\ Cardinality(flLive) = 2

\* C39: an allocate that returns None leaves the holes, allocated_space and
\* free_space of the free list as they were before the call.
C39_FailedAllocateChangesNothing ==
    [][(flHist'.op = "alloc" /\ flHist'.res = "None") => flist' = flist]_vars

\* An allocate returned None although a hole is larger than the request:
\* what would be left behind the allocation is smaller than a FreeNode.
C39_Witness ==
    /\ flHist.op = "alloc"
    /\ flHist.res = "None"
    /\ \E k \in 1..Len(flist.nodes) :
            /\ flist.nodes[k].size > flHist.size
            /\ flist.nodes[k].addr = align_up(flist.nodes[k].addr, Max(flHist.align, AlignOfFreeNode))

(***************************************************************************)
(* Task state properties                                                   *)
(***************************************************************************)
\* Ready-list tasks are Ready and on the list of their priority; outside a
\* context switch in progress the current task of a CPU is Running and its
\* old slot is empty.
TaskStatesAgree ==
    /\ \A p \in 0..(PRIORITIES_COUNT - 1) : \A i \in 1..Len(ready_lists[p]) :
            /\ schedTasks[ready_lists[p][i]].state = "Ready"
            /\ schedTasks[ready_lists[p][i]].priority = p
    /\ \A c \in Cpus :
            /\ schedCpus[c].current # NoTask =>
                    schedTasks[schedCpus[c].current].state = "Running"
            /\ schedCpus[c].pc # "switch" => schedCpus[c].old = NoTask
            /\ schedCpus[c].pc = "switch" =>
                    /\ schedCpus[c].old # NoTask
                    /\ schedTasks[schedCpus[c].old].state = "Running"

\* A step changes task states only as make_current and make_runnable (a new
\* task appears Running in a current slot or Ready on a ready list),
\* set_running (Ready to Running) and make_ready (Running to Ready) do, and
\* a panic comes from nothing but the todo!() behind switch_to.
TaskStateStep ==
    /\ \A t \in 1..Len(schedTasks) :
            /\ Len(schedTasks') >= t
            /\ schedTasks'[t].state # schedTasks[t].state =>
                    \/ /\ schedTasks[t].state = "Ready"
                       /\ schedTasks'[t].state = "Running"
                       /\ \E c \in Cpus : schedCpus[c].pc = "prepare" /\ schedCpus[c].next_task = t
                    \/ /\ schedTasks[t].state = "Running"
                       /\ schedTasks'[t].state = "Ready"
                       /\ \E c \in Cpus : schedCpus[c].pc = "switch" /\ schedCpus[c].old = t
    /\ \A t \in (Len(schedTasks) + 1)..Len(schedTasks') :
            \/ schedTasks'[t].state = "Running" /\ \E c \in Cpus : schedCpus'[c].current = t
            \/ schedTasks'[t].state = "Ready" /\ ReadyPlaces(t)' # {}
    /\ (schedPanic' /\ ~schedPanic) =>
            \E c \in Cpus : /\ schedCpus[c].pc = "return"
                            /\ schedTasks[schedCpus[c].current].entered

\* C40: in every reachable scheduler state outside a context switch in
\* progress every task on a ready list is Ready and on the list of its own
\* priority, every task in a current slot is Running and every old slot is
\* empty; task states change only by New to Running, New to Ready, Ready to
\* Running and Running to Ready, and none of the state assertions of these
\* operations fails.
C40_TaskStatesConsistent == []TaskStatesAgree /\ [][TaskStateStep]_vars

\* Both CPUs have switched to a spawned task: their idle tasks wait, Ready,
\* on the idle ready list, and the spawned tasks run.
C40_Witness ==
    /\ Len(ready_lists[PriorityIdle]) = NumCpus
    /\ \A c \in Cpus :
            /\ schedCpus[c].pc = "run"
            /\ schedCpus[c].current # NoTask
            /\ schedTasks[schedCpus[c].current].priority = PriorityNormal
            /\ schedTasks[schedCpus[c].current].state = "Running"

====
